---------------------------- MODULE Spec2Model ----------------------------
(***************************************************************************)
(* Model of the vector_db_api repository layer and its HTTP handlers.      *)
(*                                                                         *)
(* The three in-memory stores are Python dicts (insertion ordered) that    *)
(* hold references to Library / Document objects and Chunk objects.  A     *)
(* handler that reads an entity with get_by_id holds a reference to the    *)
(* very object the store holds, so add_chunk_id / remove_document_id and   *)
(* field assignments change the stored object in place.  Library and       *)
(* Document objects are built once per identifier, so the heap of those    *)
(* objects is indexed by identifier (libObj, docObj) and a store is the    *)
(* sequence of its keys.  A Chunk is replaced by a new object on update    *)
(* and never changed in place, so the Chunk Store holds chunk values.      *)
(*                                                                         *)
(* Every repository call (one lock acquisition) is one atomic step of the  *)
(* calling handler; so is every in-place change of a shared object (the    *)
(* consecutive field assignments of one update are one step).  The         *)
(* repository methods themselves, with the acquisition of the lock, each   *)
(* access to the dict and the release as steps, are the actions repo_*.    *)
(*                                                                         *)
(* A request body is a record of its fields as sent: a field left out and  *)
(* a field sent as null are told apart until pydantic parses them.         *)
(*                                                                         *)
(* Similarities are float32 (Chunk.vector_array): the model keeps whole    *)
(* numbers, a range beyond which a result is infinite, and NaN.            *)
(***************************************************************************)
EXTENDS Integers, Sequences, FiniteSets, TLC

\* ------------------------------------------------------------- bounds
MaxLibs == 2
MaxDocs == 2
MaxChunks == 2
NumThreads == 2
MaxCalls == 3
\* libraries created where the updates of libraries and documents are looked at
PatchLibs == 1
\* libraries created where the add methods of the lists are called directly
ListLibs == 1
\* repository calls made where their termination is looked at
FairCalls == 2
\* libraries created where deletions overlap other requests
ConcLibs == 1
\* documents created by requests where a deletion of a document overlaps them
ConcDocs == 1

\* ---------------------------------------------------------- constants
\* Optional[UUID] = None
NoId == 0
\* an identifier no uuid4() call of this run ever returned
UnknownId == MaxLibs + MaxDocs + MaxChunks + 1

DefaultTitle == "Default Document"
\* titles a request may carry; the second one starts with the marker too
Titles == {"T", "Default Document 2"}
Names == {"Docs"}
\* a field the JSON body of a request leaves out
Omitted == "<omitted>"
\* a field the JSON body gives as null
Null == "<null>"
\* Python's None
None == "<None>"
\* a metadata dict is the set of its keys; the three markers again, for a
\* field that holds a dict
OmittedDict == {Omitted}
NullDict == {Null}
NoneDict == {None}
\* the content and the metadata create_chunk_in_library gives the document
\* it creates
DefaultContent == "Auto-created document for direct chunk uploads"
DefaultMetadata == {"auto_created"}
\* the bodies of the requests where only the hierarchy is looked at
CreateLibraryRequests ==
    [name : Names, description : {Omitted}, metadata : {OmittedDict}]
UpdateLibraryRequests ==
    [name : Names \cup {Omitted}, description : {Omitted},
     metadata : {OmittedDict}]
\* an update of a library that gives it another name
RenameRequests ==
    [name : {"Renamed"}, description : {Omitted}, metadata : {OmittedDict}]
\* bodies that give every field of a new library or document, and bodies
\* of an update that give or leave out each field, the metadata also as null
\* and as the empty dict
FullLibraryRequests ==
    [name : {"Docs"}, description : {"Shelf"}, metadata : {{"a"}}]
PatchLibraryRequests ==
    [name : {Omitted, "Renamed"}, description : {Omitted, "Moved"},
     metadata : {OmittedDict, NullDict, {}, {"b"}}]
FullDocumentRequests ==
    [title : {"T"}, content : {"Text"}, metadata : {{"a"}}]
PatchDocumentRequests ==
    [title : {Omitted, "Retitled"}, content : {Omitted, "Edited"},
     metadata : {OmittedDict, NullDict, {}, {"b"}}]
CreateDocumentRequests(T) ==
    [title : T, content : {Omitted}, metadata : {OmittedDict}]
UpdateDocumentRequests(T) ==
    [title : T \cup {Omitted}, content : {Omitted}, metadata : {OmittedDict}]
\* an update of a document that gives it another title
RetitleRequests ==
    [title : {"Retitled"}, content : {Omitted}, metadata : {OmittedDict}]
\* CreateChunkRequest bodies with the vectors V; their document_id is read by
\* the legacy create_chunk only, which draws it itself
CreateChunkRequests(V) == [vector : V, metadata : {OmittedDict}]
\* bodies that give a new chunk its metadata, and bodies of an update with a
\* vector of the same or of another length, with and without metadata
FullChunkRequests == [vector : {<<3, 4>>}, metadata : {{"a"}}]
PatchChunkRequests ==
    [vector : {<<4, 3>>, <<1>>}, metadata : {OmittedDict, {"b"}}]
\* np.float32: the largest finite value, scaled down
F32Max == 1000000
\* a vector component such as 1e30: finite in float32, its square is not
Huge == 10000
\* the vectors of the chunks a search ranks (validate_vector_not_empty: never
\* empty); their finite norms are whole numbers
Vectors == {<<3, 4>>, <<1>>, <<Huge>>}
\* the vector an update of such a chunk carries
UpdateVectors == {<<4, 3>>}
\* the vectors of the requests where only the hierarchy is looked at
HierVectors == {<<3, 4>>, <<1>>}
\* the vectors of three chunks whose ranking is looked at, and the queries:
\* 1000 stands for a component such as 1e19, whose square is finite and
\* whose product with Huge is not
RankVectors == {<<0>>, <<1>>, <<Huge>>}
RankQueries == {<<1>>, <<1000>>}
RankTopKs == 0..3
\* query vectors of a search request (may be empty)
Queries == {<<>>, <<3, 4>>, <<0, 0>>, <<1>>, <<Huge>>}
\* top_k of a search request: any int
TopKs == (0 - 1)..2 \cup {5}

Threads == 1..NumThreads

\* the three repositories of RepositoryContainer
Stores == {"library", "document", "chunk"}
\* names of the libraries a caller hands to a repository
RepoNames == {"A", "B"}

VARIABLES
    libStore,   \* InMemoryLibraryRepository._store: its keys, in dict order
    libObj,     \* the Library objects, by identifier
    docStore,   \* InMemoryDocumentRepository._store: its keys, in dict order
    docObj,     \* the Document objects, by identifier
    chunkStore, \* InMemoryChunkRepository._store: its values, in dict order
    nextLib, nextDoc, nextChunk,   \* uuid4(): the next fresh identifier
    th,         \* per thread: the handler it runs, its locals, its response
    lock,       \* per repository: the thread that holds self._lock, or 0
    calls       \* the number of repository calls made by callers so far

vars == <<libStore, libObj, docStore, docObj, chunkStore,
          nextLib, nextDoc, nextChunk, th, lock, calls>>

\* ------------------------------------------------------------ helpers
Range(s) == {s[i] : i \in 1..Len(s)}

Contains(s, x) == \E i \in 1..Len(s) : s[i] = x

\* list.remove(x): drops the first occurrence
RemoveFirst(s, x) ==
    IF ~Contains(s, x) THEN s
    ELSE LET i == CHOOSE j \in 1..Len(s) :
                      s[j] = x /\ \A k \in 1..(j - 1) : s[k] # x
         IN  SubSeq(s, 1, i - 1) \o SubSeq(s, i + 1, Len(s))

\* dict[key] = value on a dict of keys: a new key goes last, an old one stays
DictSet(store, id) == IF Contains(store, id) THEN store ELSE Append(store, id)

\* del dict[key]
DictDel(store, id) == SelectSeq(store, LAMBDA x : x # id)

NullLib == [name |-> "", description |-> None, metadata |-> {},
            document_ids |-> <<>>]
NullDoc == [title |-> "", content |-> None, metadata |-> {},
            library_id |-> NoId, chunk_ids |-> <<>>]
NoChunk == [id |-> NoId, vector |-> <<>>, metadata |-> {},
            document_id |-> NoId]

\* ------------------------------------------------- request models
\* pydantic, a field declared Optional[str] = None: left out or null, it is
\* None
OptionalStr(x) == IF x \in {Omitted, Null} THEN None ELSE x

\* pydantic, a field declared Optional[dict] = None
OptionalDict(m) == IF m \in {OmittedDict, NullDict} THEN NoneDict ELSE m

\* pydantic, a field declared dict = {}: left out, it is the empty dict
DefaultDict(m) == IF m = OmittedDict THEN {} ELSE m

\* ----------------------------------------------------- domain models
\* add_document_id putting the new identifier first (list.insert(0, ...))
AddDocumentId_Front(ids, d) == IF Contains(ids, d) THEN ids ELSE <<d>> \o ids

\* add_document_id without the membership test
AddDocumentId_Always(ids, d) == Append(ids, d)

\* Library.add_document_id
AddDocumentId(ids, d) == IF Contains(ids, d) THEN ids ELSE Append(ids, d)

\* remove_document_id that leaves the list as it is
RemoveDocumentId_Keep(ids, d) == ids

\* Library.remove_document_id
RemoveDocumentId(ids, d) == RemoveFirst(ids, d)

\* add_chunk_id putting the new identifier first (list.insert(0, ...))
AddChunkId_Front(ids, c) == IF Contains(ids, c) THEN ids ELSE <<c>> \o ids

\* Document.add_chunk_id
AddChunkId(ids, c) == IF Contains(ids, c) THEN ids ELSE Append(ids, c)

\* remove_chunk_id that leaves the list as it is
RemoveChunkId_Keep(ids, c) == ids

\* remove_chunk_id dropping the last identifier (list.pop()), not the named one
RemoveChunkId_Pop(ids, c) ==
    IF ids = <<>> THEN ids ELSE SubSeq(ids, 1, Len(ids) - 1)

\* Document.remove_chunk_id
RemoveChunkId(ids, c) == RemoveFirst(ids, c)

\* str.startswith("Default Document")
StartsWithDefault(title) == title \in {"Default Document", "Default Document 2"}

\* ------------------------------------------------------- repositories
\* InMemoryLibraryRepository.get_by_id: the stored object or None
LibGet(id) == IF Contains(libStore, id) THEN id ELSE NoId

\* InMemoryDocumentRepository.get_by_id
DocGet(id) == IF Contains(docStore, id) THEN id ELSE NoId

\* list_by_library_id without its filter on doc.library_id
DocListByLibraryId_All(lid) == docStore

\* InMemoryDocumentRepository.list_by_library_id
DocListByLibraryId(lid) ==
    SelectSeq(docStore, LAMBDA d : docObj[d].library_id = lid)

\* InMemoryChunkRepository.get_by_id
ChunkGet(id) ==
    IF \E i \in 1..Len(chunkStore) : chunkStore[i].id = id
    THEN chunkStore[CHOOSE i \in 1..Len(chunkStore) : chunkStore[i].id = id]
    ELSE NoChunk

\* a store assignment that drops the old entry and puts the new one last
ChunkSet_Reinsert(store, c) ==
    Append(SelectSeq(store, LAMBDA x : x.id # c.id), c)

\* InMemoryChunkRepository.create / update: self._store[chunk.id] = chunk
ChunkSet(store, c) ==
    IF \E i \in 1..Len(store) : store[i].id = c.id
    THEN [i \in 1..Len(store) |-> IF store[i].id = c.id THEN c ELSE store[i]]
    ELSE Append(store, c)

\* InMemoryChunkRepository.delete
ChunkDel(store, id) == SelectSeq(store, LAMBDA c : c.id # id)

\* list_by_document_id reading the document's chunk_ids instead of scanning
\* the store for chunk.document_id
ChunkListByDocumentId_Listed(did) ==
    SelectSeq(chunkStore, LAMBDA c : Contains(docObj[did].chunk_ids, c.id))

\* InMemoryChunkRepository.list_by_document_id
ChunkListByDocumentId(did) ==
    SelectSeq(chunkStore, LAMBDA c : c.document_id = did)

\* a listing that returns every chunk with a document_id, whatever document
\* it names
ChunkListByDocumentIds_Any(dids) ==
    SelectSeq(chunkStore, LAMBDA c : c.document_id # NoId)

\* InMemoryChunkRepository.list_by_library_id, its second half: the chunks
\* whose document_id is in the set gathered from the Document Store
ChunkListByDocumentIds(dids) ==
    SelectSeq(chunkStore, LAMBDA c : c.document_id \in dids)

\* --------------------------------------------------------- chunk.py
Dimension(v) == Len(v)

\* np.array(self.vector, dtype=np.float32): the arithmetic below is float32.
\* Values are non-negative whole numbers up to F32Max; Inf stands for the
\* float32 infinity a result beyond that range becomes, NaN for not-a-number.
Inf == F32Max + 1

NaN == 0 - (F32Max + 2)

\* the float32 nearest to a non-negative result
Round(x) == IF x > F32Max THEN Inf ELSE x

\* float32 product of non-negative operands
Mul(a, b) ==
    IF a = NaN \/ b = NaN THEN NaN
    ELSE IF a = Inf \/ b = Inf THEN (IF a = 0 \/ b = 0 THEN NaN ELSE Inf)
         ELSE Round(a * b)

\* float32 sum of non-negative operands
Add(a, b) ==
    IF a = NaN \/ b = NaN THEN NaN
    ELSE IF a = Inf \/ b = Inf THEN Inf
         ELSE Round(a + b)

\* float32 quotient of non-negative operands, in thousandths
Div(a, b) ==
    IF a = NaN \/ b = NaN THEN NaN
    ELSE IF a = Inf THEN (IF b = Inf THEN NaN ELSE Inf)
         ELSE IF b = Inf THEN 0
              ELSE IF b = 0 THEN (IF a = 0 THEN NaN ELSE Inf)
                   ELSE (1000 * a) \div b

\* a < b on floats: False when either is NaN
Less(a, b) ==
    /\ a # NaN
    /\ b # NaN
    /\ IF a = Inf THEN FALSE ELSE IF b = Inf THEN TRUE ELSE a < b

RECURSIVE Dot(_, _)
\* np.dot
Dot(a, b) ==
    IF a = <<>> THEN 0
    ELSE Add(Mul(Head(a), Head(b)), Dot(Tail(a), Tail(b)))

\* np.linalg.norm: sqrt(x.dot(x)); the finite norms of this model's vectors
\* are whole numbers
Norm(a) ==
    LET sq == Dot(a, a)
    IN  IF sq = Inf \/ sq = NaN THEN sq
        ELSE CHOOSE r \in 0..sq : r * r = sq

\* similarity_to without its test for a zero norm
SimilarityTo_Unguarded(a, b) == Div(Dot(a, b), Mul(Norm(a), Norm(b)))

\* Chunk.similarity_to, when the dimensions agree (it raises ValueError when
\* they do not): the cosine in thousandths, 0.0 for a zero norm
SimilarityTo(a, b) ==
    IF Norm(a) = 0 \/ Norm(b) = 0 THEN 0
    ELSE Div(Dot(a, b), Mul(Norm(a), Norm(b)))

\* ------------------------------------------ search_by_vector_similarity
\* a loop that scores a chunk of another dimension 0.0 instead of skipping it
Similarities_NoSkip(chunks, q) ==
    [i \in 1..Len(chunks) |->
        [chunk |-> chunks[i],
         score |-> IF Dimension(chunks[i].vector) # Dimension(q) THEN 0
                   ELSE SimilarityTo(q, chunks[i].vector)]]

\* the loop over the chunks: (chunk, similarity) for every chunk whose
\* similarity_to does not raise, in the order of the list
RECURSIVE Similarities(_, _)
Similarities(chunks, q) ==
    IF chunks = <<>> THEN <<>>
    ELSE IF Dimension(Head(chunks).vector) # Dimension(q)
         THEN Similarities(Tail(chunks), q)
         ELSE <<[chunk |-> Head(chunks),
                 score |-> SimilarityTo(q, Head(chunks).vector)]>>
              \o Similarities(Tail(chunks), q)

\* list.reverse()
Reverse(s) == [i \in 1..Len(s) |-> s[Len(s) + 1 - i]]

\* the comparison list.sort makes: key(x) < key(y)
KeyLess(x, y) == Less(x.score, y.score)

RECURSIVE CountRun(_, _, _)
\* list.sort, count_run: the length of the run the list begins with, n of
\* its entries being in it already; a descending run goes on while the next
\* key is less than the one before it, an ascending run while it is not
CountRun(a, n, descending) ==
    IF n < Len(a) /\ KeyLess(a[n + 1], a[n]) = descending
    THEN CountRun(a, n + 1, descending)
    ELSE n

RECURSIVE Bisect(_, _, _, _)
\* list.sort, binarysort: the place of the pivot among the first entries,
\* found by halving (l and r count from 0)
Bisect(a, pivot, l, r) ==
    IF l >= r THEN l
    ELSE LET p == l + ((r - l) \div 2)
         IN  IF KeyLess(pivot, a[p + 1]) THEN Bisect(a, pivot, l, p)
             ELSE Bisect(a, pivot, p + 1, r)

RECURSIVE BinarySort(_, _)
\* list.sort, binarysort: the entries after the first `start` are inserted
\* one by one
BinarySort(a, start) ==
    IF start >= Len(a) THEN a
    ELSE LET pivot == a[start + 1]
             l == Bisect(a, pivot, 0, start)
         IN  BinarySort(SubSeq(a, 1, l) \o <<pivot>> \o SubSeq(a, l + 1, start)
                           \o SubSeq(a, start + 2, Len(a)), start + 1)

\* list.sort of a list shorter than 64: one run, found by count_run
\* (reversed when it descends) and extended by binarysort
ListSort(a) ==
    IF Len(a) < 2 THEN a
    ELSE LET descending == KeyLess(a[2], a[1])
             n == CountRun(a, 2, descending)
         IN  BinarySort(IF descending
                        THEN Reverse(SubSeq(a, 1, n)) \o SubSeq(a, n + 1, Len(a))
                        ELSE a, n)

\* list.sort(key=score, reverse=True): the list is reversed, sorted in
\* ascending order and reversed again, so that equal scores keep their order
SortDesc(s) == Reverse(ListSort(Reverse(s)))

\* similarities[:top_k]
Slice(s, k) ==
    IF k >= 0 THEN SubSeq(s, 1, IF k < Len(s) THEN k ELSE Len(s))
    ELSE SubSeq(s, 1, IF Len(s) + k > 0 THEN Len(s) + k ELSE 0)

\* search_by_vector_similarity, after the chunks of the library are listed
SearchByVectorSimilarity(chunks, q, k) ==
    IF chunks = <<>> THEN <<>>
    ELSE Slice(SortDesc(Similarities(chunks, q)), k)

\* -------------------------------------------------------------- state
\* what the stores hold, as a reader of the stores sees it
LibView == [i \in 1..Len(libStore) |->
              [id |-> libStore[i], name |-> libObj[libStore[i]].name,
               description |-> libObj[libStore[i]].description,
               metadata |-> libObj[libStore[i]].metadata,
               document_ids |-> libObj[libStore[i]].document_ids]]

DocView == [i \in 1..Len(docStore) |->
              [id |-> docStore[i], title |-> docObj[docStore[i]].title,
               content |-> docObj[docStore[i]].content,
               metadata |-> docObj[docStore[i]].metadata,
               library_id |-> docObj[docStore[i]].library_id,
               chunk_ids |-> docObj[docStore[i]].chunk_ids]]

Snapshot == [libs |-> LibView, docs |-> DocView, chunks |-> chunkStore]

NoSnapshot == [libs |-> <<>>, docs |-> <<>>, chunks |-> <<>>]

Idle == [pc |-> "idle", op |-> "none",
         library_id |-> NoId, document_id |-> NoId, chunk_id |-> NoId,
         vector |-> <<>>, top_k |-> 0, title |-> "",
         description |-> Omitted, content |-> Omitted,
         metadata |-> OmittedDict, dimension |-> 0,
         library |-> NoId, document |-> NoId,
         documents |-> <<>>, chunks |-> <<>>, chunk |-> NoChunk,
         results |-> <<>>, total |-> 0,
         store |-> "none", key |-> NoId, entity |-> NoChunk, i |-> 0,
         ret |-> <<>>, flag |-> FALSE, raised |-> "none",
         status |-> 0, pre |-> NoSnapshot]

Init ==
    /\ libStore = <<>>
    /\ libObj = [i \in 1..MaxLibs |-> NullLib]
    /\ docStore = <<>>
    /\ docObj = [i \in 1..MaxDocs |-> NullDoc]
    /\ chunkStore = <<>>
    /\ nextLib = 1
    /\ nextDoc = 1
    /\ nextChunk = 1
    /\ th = [t \in Threads |-> Idle]
    /\ lock = [s \in Stores |-> 0]
    /\ calls = 0

\* identifiers a request can name: every uuid handed out so far, or another
LibIds == 1..(nextLib - 1) \cup {UnknownId}
DocIds == 1..(nextDoc - 1) \cup {UnknownId}
ChunkIds == 1..(nextChunk - 1) \cup {UnknownId}

Quiescent == \A t \in Threads : th[t].pc = "idle"

\* a request arrives at a thread that serves none
CanCall(t) == th[t].pc = "idle"

\* the handler starts: its path and body parameters, and the stores as they are
Called(t, op) == [th[t] EXCEPT !.op = op, !.pre = Snapshot]

Goto(r, pc) == [r EXCEPT !.pc = pc]

\* return, or raise HTTPException(status_code=...)
Respond(r, status) == [r EXCEPT !.pc = "done", !.status = status]

\* LibraryResponse(...): the fields of the object, as they are when the
\* response is built
LibraryResponse(l) ==
    [id |-> l, name |-> libObj[l].name, description |-> libObj[l].description,
     metadata |-> libObj[l].metadata, document_ids |-> libObj[l].document_ids]

\* DocumentResponse(...)
DocumentResponse(d) ==
    [id |-> d, title |-> docObj[d].title, content |-> docObj[d].content,
     metadata |-> docObj[d].metadata, library_id |-> docObj[d].library_id,
     chunk_ids |-> docObj[d].chunk_ids]

\* ------------------------------------------------ libraries.py
\* create_library
create_library(t, B) ==
    /\ CanCall(t)
    /\ nextLib <= MaxLibs
    /\ \E request \in B :
         /\ libObj' = [libObj EXCEPT ![nextLib] =
                          [name |-> request.name,
                           description |-> OptionalStr(request.description),
                           metadata |-> DefaultDict(request.metadata),
                           document_ids |-> <<>>]]
         /\ libStore' = DictSet(libStore, nextLib)
         /\ nextLib' = nextLib + 1
         /\ th' = [th EXCEPT ![t] =
                Respond([Called(t, "create_library") EXCEPT
                           !.library_id = nextLib, !.title = request.name,
                           !.description = request.description,
                           !.metadata = request.metadata], 200)]
    /\ UNCHANGED <<docStore, docObj, chunkStore, nextDoc, nextChunk,
                   lock, calls>>

\* get_library: get_by_id, or 404; the response
get_library(t) ==
    /\ CanCall(t)
    /\ \E lid \in LibIds :
         LET r == [Called(t, "get_library") EXCEPT
                     !.library_id = lid, !.library = LibGet(lid)]
         IN  th' = [th EXCEPT ![t] =
                IF r.library = NoId THEN Respond(r, 404)
                ELSE Respond([r EXCEPT !.ret = <<LibraryResponse(r.library)>>],
                             200)]
    /\ UNCHANGED <<libStore, libObj, docStore, docObj, chunkStore,
                   nextLib, nextDoc, nextChunk,
                   lock, calls>>

\* update_library: get_by_id, or 404
update_library(t, B) ==
    /\ CanCall(t)
    /\ \E lid \in LibIds, request \in B :
         LET r == [Called(t, "update_library") EXCEPT
                     !.library_id = lid, !.title = request.name,
                     !.description = request.description,
                     !.metadata = request.metadata, !.library = LibGet(lid)]
         IN  th' = [th EXCEPT ![t] =
                IF r.library = NoId THEN Respond(r, 404) ELSE Goto(r, "ul_patch")]
    /\ UNCHANGED <<libStore, libObj, docStore, docObj, chunkStore,
                   nextLib, nextDoc, nextChunk,
                   lock, calls>>

\* a patch that assigns every field of the request, None for one left out
update_library_patch_Replace(t) ==
    /\ th[t].pc = "ul_patch"
    /\ libObj' = [libObj EXCEPT
         ![th[t].library].name = OptionalStr(th[t].title),
         ![th[t].library].description = OptionalStr(th[t].description),
         ![th[t].library].metadata = OptionalDict(th[t].metadata)]
    /\ th' = [th EXCEPT ![t] = Goto(@, "ul_update")]
    /\ UNCHANGED <<libStore, docStore, docObj, chunkStore,
                   nextLib, nextDoc, nextChunk,
                   lock, calls>>

\* update_library: library.name = request.name if request.name is not None,
\* and the same for description and metadata
update_library_patch(t) ==
    /\ th[t].pc = "ul_patch"
    /\ libObj' = [libObj EXCEPT
         ![th[t].library].name =
             IF OptionalStr(th[t].title) # None THEN th[t].title ELSE @,
         ![th[t].library].description =
             IF OptionalStr(th[t].description) # None
             THEN th[t].description ELSE @,
         ![th[t].library].metadata =
             IF OptionalDict(th[t].metadata) # NoneDict
             THEN th[t].metadata ELSE @]
    /\ th' = [th EXCEPT ![t] = Goto(@, "ul_update")]
    /\ UNCHANGED <<libStore, docStore, docObj, chunkStore,
                   nextLib, nextDoc, nextChunk,
                   lock, calls>>

\* update_library: library_repo.update(library)
update_library_update(t) ==
    /\ th[t].pc = "ul_update"
    /\ libStore' = DictSet(libStore, th[t].library)
    /\ th' = [th EXCEPT ![t] = Respond(@, 200)]
    /\ UNCHANGED <<libObj, docStore, docObj, chunkStore,
                   nextLib, nextDoc, nextChunk,
                   lock, calls>>

\* a delete_library that answers 200 for a library that is not stored
delete_library_Idempotent(t) ==
    /\ CanCall(t)
    /\ \E lid \in LibIds :
         LET r == [Called(t, "delete_library") EXCEPT
                     !.library_id = lid, !.library = LibGet(lid)]
         IN  th' = [th EXCEPT ![t] =
                IF r.library = NoId THEN Respond(r, 200) ELSE Goto(r, "dl_list")]
    /\ UNCHANGED <<libStore, libObj, docStore, docObj, chunkStore,
                   nextLib, nextDoc, nextChunk,
                   lock, calls>>

\* delete_library: get_by_id, or 404
delete_library(t) ==
    /\ CanCall(t)
    /\ \E lid \in LibIds :
         LET r == [Called(t, "delete_library") EXCEPT
                     !.library_id = lid, !.library = LibGet(lid)]
         IN  th' = [th EXCEPT ![t] =
                IF r.library = NoId THEN Respond(r, 404) ELSE Goto(r, "dl_list")]
    /\ UNCHANGED <<libStore, libObj, docStore, docObj, chunkStore,
                   nextLib, nextDoc, nextChunk,
                   lock, calls>>

\* a delete_library that removes the library before its documents
delete_library_list_LibraryFirst(t) ==
    /\ th[t].pc = "dl_list"
    /\ LET docs == DocListByLibraryId(th[t].library_id)
       IN  th' = [th EXCEPT ![t] = Goto([@ EXCEPT !.documents = docs],
                     IF docs = <<>> THEN "dl_delete" ELSE "dl_chunks")]
    /\ libStore' = DictDel(libStore, th[t].library_id)
    /\ UNCHANGED <<libObj, docStore, docObj, chunkStore,
                   nextLib, nextDoc, nextChunk,
                   lock, calls>>

\* delete_library: documents = document_repo.list_by_library_id(library_id)
delete_library_list(t) ==
    /\ th[t].pc = "dl_list"
    /\ LET docs == DocListByLibraryId(th[t].library_id)
       IN  th' = [th EXCEPT ![t] = Goto([@ EXCEPT !.documents = docs],
                     IF docs = <<>> THEN "dl_delete" ELSE "dl_chunks")]
    /\ UNCHANGED <<libStore, libObj, docStore, docObj, chunkStore,
                   nextLib, nextDoc, nextChunk,
                   lock, calls>>

\* delete_library: chunks = chunk_repo.list_by_document_id(document.id)
delete_library_chunks(t) ==
    /\ th[t].pc = "dl_chunks"
    /\ LET cs == ChunkListByDocumentId(Head(th[t].documents))
       IN  th' = [th EXCEPT ![t] = Goto([@ EXCEPT !.chunks = cs],
                     IF cs = <<>> THEN "dl_doc_delete" ELSE "dl_chunk_delete")]
    /\ UNCHANGED <<libStore, libObj, docStore, docObj, chunkStore,
                   nextLib, nextDoc, nextChunk,
                   lock, calls>>

\* delete_library: chunk_repo.delete(chunk.id), for the next chunk of the list
delete_library_chunk_delete(t) ==
    /\ th[t].pc = "dl_chunk_delete"
    /\ chunkStore' = ChunkDel(chunkStore, Head(th[t].chunks).id)
    /\ th' = [th EXCEPT ![t] = Goto([@ EXCEPT !.chunks = Tail(@)],
                 IF Len(th[t].chunks) = 1 THEN "dl_doc_delete"
                 ELSE "dl_chunk_delete")]
    /\ UNCHANGED <<libStore, libObj, docStore, docObj,
                   nextLib, nextDoc, nextChunk,
                   lock, calls>>

\* delete_library: document_repo.delete(document.id), then the next document
delete_library_doc_delete(t) ==
    /\ th[t].pc = "dl_doc_delete"
    /\ docStore' = DictDel(docStore, Head(th[t].documents))
    /\ th' = [th EXCEPT ![t] = Goto([@ EXCEPT !.documents = Tail(@)],
                 IF Len(th[t].documents) = 1 THEN "dl_delete" ELSE "dl_chunks")]
    /\ UNCHANGED <<libStore, libObj, docObj, chunkStore,
                   nextLib, nextDoc, nextChunk,
                   lock, calls>>

\* delete_library: success = library_repo.delete(library_id), 404 if not
delete_library_delete(t) ==
    /\ th[t].pc = "dl_delete"
    /\ libStore' = DictDel(libStore, th[t].library_id)
    /\ th' = [th EXCEPT ![t] =
           Respond(@, IF Contains(libStore, th[t].library_id) THEN 200 ELSE 404)]
    /\ UNCHANGED <<libObj, docStore, docObj, chunkStore,
                   nextLib, nextDoc, nextChunk,
                   lock, calls>>

\* ------------------------------------------------ documents.py
\* create_document_in_library: library = get_by_id, or 404
create_document_in_library(t, B) ==
    /\ CanCall(t)
    /\ nextDoc <= MaxDocs
    /\ \E lid \in LibIds, request \in B :
         LET r == [Called(t, "create_document_in_library") EXCEPT
                     !.library_id = lid, !.title = request.title,
                     !.content = request.content,
                     !.metadata = request.metadata, !.library = LibGet(lid)]
         IN  th' = [th EXCEPT ![t] =
                IF r.library = NoId THEN Respond(r, 404) ELSE Goto(r, "cd_create")]
    /\ UNCHANGED <<libStore, libObj, docStore, docObj, chunkStore,
                   nextLib, nextDoc, nextChunk,
                   lock, calls>>

\* create_document_in_library: Document(...), document_repo.create(document)
create_document_create(t) ==
    /\ th[t].pc = "cd_create"
    /\ nextDoc <= MaxDocs
    /\ docObj' = [docObj EXCEPT ![nextDoc] =
                     [title |-> th[t].title,
                      content |-> OptionalStr(th[t].content),
                      metadata |-> DefaultDict(th[t].metadata),
                      library_id |-> th[t].library_id, chunk_ids |-> <<>>]]
    /\ docStore' = DictSet(docStore, nextDoc)
    /\ nextDoc' = nextDoc + 1
    /\ th' = [th EXCEPT ![t] = Goto([@ EXCEPT !.document = nextDoc,
                                       !.document_id = nextDoc], "cd_add")]
    /\ UNCHANGED <<libStore, libObj, chunkStore, nextLib, nextChunk,
                   lock, calls>>

\* create_document_in_library: library.add_document_id(document.id)
create_document_add(t) ==
    /\ th[t].pc = "cd_add"
    /\ libObj' = [libObj EXCEPT ![th[t].library].document_ids =
                     AddDocumentId(@, th[t].document)]
    /\ th' = [th EXCEPT ![t] = Goto(@, "cd_update")]
    /\ UNCHANGED <<libStore, docStore, docObj, chunkStore,
                   nextLib, nextDoc, nextChunk,
                   lock, calls>>

\* create_document_in_library: library_repo.update(library)
create_document_update(t) ==
    /\ th[t].pc = "cd_update"
    /\ libStore' = DictSet(libStore, th[t].library)
    /\ th' = [th EXCEPT ![t] = Respond(@, 200)]
    /\ UNCHANGED <<libObj, docStore, docObj, chunkStore,
                   nextLib, nextDoc, nextChunk,
                   lock, calls>>

\* get_document_in_library: library = get_by_id, or 404
get_document_in_library(t) ==
    /\ CanCall(t)
    /\ \E lid \in LibIds, did \in DocIds :
         LET r == [Called(t, "get_document_in_library") EXCEPT
                     !.library_id = lid, !.document_id = did,
                     !.library = LibGet(lid)]
         IN  th' = [th EXCEPT ![t] =
                IF r.library = NoId THEN Respond(r, 404) ELSE Goto(r, "gd_get")]
    /\ UNCHANGED <<libStore, libObj, docStore, docObj, chunkStore,
                   nextLib, nextDoc, nextChunk,
                   lock, calls>>

\* get_document_in_library: document = get_by_id, 404 unless it is there and
\* document.library_id == library_id; the response
get_document_get(t) ==
    /\ th[t].pc = "gd_get"
    /\ LET d == DocGet(th[t].document_id)
       IN  th' = [th EXCEPT ![t] =
               IF d = NoId THEN Respond(@, 404)
               ELSE IF docObj[d].library_id # th[t].library_id
                    THEN Respond([@ EXCEPT !.document = d], 404)
                    ELSE Respond([@ EXCEPT !.document = d,
                                    !.ret = <<DocumentResponse(d)>>], 200)]
    /\ UNCHANGED <<libStore, libObj, docStore, docObj, chunkStore,
                   nextLib, nextDoc, nextChunk,
                   lock, calls>>

\* update_document_in_library: library = get_by_id, or 404
update_document_in_library(t, B) ==
    /\ CanCall(t)
    /\ \E lid \in LibIds, did \in DocIds, request \in B :
         LET r == [Called(t, "update_document_in_library") EXCEPT
                     !.library_id = lid, !.document_id = did,
                     !.title = request.title, !.content = request.content,
                     !.metadata = request.metadata, !.library = LibGet(lid)]
         IN  th' = [th EXCEPT ![t] =
                IF r.library = NoId THEN Respond(r, 404) ELSE Goto(r, "ud_get")]
    /\ UNCHANGED <<libStore, libObj, docStore, docObj, chunkStore,
                   nextLib, nextDoc, nextChunk,
                   lock, calls>>

\* update_document_in_library: document = get_by_id, 404 unless it is there
\* and document.library_id == library_id
update_document_get(t) ==
    /\ th[t].pc = "ud_get"
    /\ LET d == DocGet(th[t].document_id)
       IN  th' = [th EXCEPT ![t] =
               IF d = NoId THEN Respond(@, 404)
               ELSE IF docObj[d].library_id # th[t].library_id
                    THEN Respond([@ EXCEPT !.document = d], 404)
                    ELSE Goto([@ EXCEPT !.document = d], "ud_patch")]
    /\ UNCHANGED <<libStore, libObj, docStore, docObj, chunkStore,
                   nextLib, nextDoc, nextChunk,
                   lock, calls>>

\* update_document_in_library: document.title = request.title if
\* request.title is not None, and the same for content and metadata
update_document_patch(t) ==
    /\ th[t].pc = "ud_patch"
    /\ docObj' = [docObj EXCEPT
         ![th[t].document].title =
             IF OptionalStr(th[t].title) # None THEN th[t].title ELSE @,
         ![th[t].document].content =
             IF OptionalStr(th[t].content) # None THEN th[t].content ELSE @,
         ![th[t].document].metadata =
             IF OptionalDict(th[t].metadata) # NoneDict
             THEN th[t].metadata ELSE @]
    /\ th' = [th EXCEPT ![t] = Goto(@, "ud_update")]
    /\ UNCHANGED <<libStore, libObj, docStore, chunkStore,
                   nextLib, nextDoc, nextChunk,
                   lock, calls>>

\* update_document_in_library: document_repo.update(document)
update_document_update(t) ==
    /\ th[t].pc = "ud_update"
    /\ docStore' = DictSet(docStore, th[t].document)
    /\ th' = [th EXCEPT ![t] = Respond(@, 200)]
    /\ UNCHANGED <<libStore, libObj, docObj, chunkStore,
                   nextLib, nextDoc, nextChunk,
                   lock, calls>>

\* delete_document_in_library: library = get_by_id, or 404
delete_document_in_library(t) ==
    /\ CanCall(t)
    /\ \E lid \in LibIds, did \in DocIds :
         LET r == [Called(t, "delete_document_in_library") EXCEPT
                     !.library_id = lid, !.document_id = did,
                     !.library = LibGet(lid)]
         IN  th' = [th EXCEPT ![t] =
                IF r.library = NoId THEN Respond(r, 404) ELSE Goto(r, "dd_get")]
    /\ UNCHANGED <<libStore, libObj, docStore, docObj, chunkStore,
                   nextLib, nextDoc, nextChunk,
                   lock, calls>>

\* delete_document_in_library: document = get_by_id, 404 unless it is there
\* and document.library_id == library_id
delete_document_get(t) ==
    /\ th[t].pc = "dd_get"
    /\ LET d == DocGet(th[t].document_id)
       IN  th' = [th EXCEPT ![t] =
               IF d = NoId THEN Respond(@, 404)
               ELSE IF docObj[d].library_id # th[t].library_id
                    THEN Respond([@ EXCEPT !.document = d], 404)
                    ELSE Goto([@ EXCEPT !.document = d], "dd_list")]
    /\ UNCHANGED <<libStore, libObj, docStore, docObj, chunkStore,
                   nextLib, nextDoc, nextChunk,
                   lock, calls>>

\* a delete_document that takes the chunks to delete from the document's
\* chunk_ids
delete_document_list_FromList(t) ==
    /\ th[t].pc = "dd_list"
    /\ LET cs == ChunkListByDocumentId_Listed(th[t].document_id)
       IN  th' = [th EXCEPT ![t] = Goto([@ EXCEPT !.chunks = cs],
                     IF cs = <<>> THEN "dd_remove" ELSE "dd_chunk_delete")]
    /\ UNCHANGED <<libStore, libObj, docStore, docObj, chunkStore,
                   nextLib, nextDoc, nextChunk,
                   lock, calls>>

\* delete_document_in_library: chunks = chunk_repo.list_by_document_id
delete_document_list(t) ==
    /\ th[t].pc = "dd_list"
    /\ LET cs == ChunkListByDocumentId(th[t].document_id)
       IN  th' = [th EXCEPT ![t] = Goto([@ EXCEPT !.chunks = cs],
                     IF cs = <<>> THEN "dd_remove" ELSE "dd_chunk_delete")]
    /\ UNCHANGED <<libStore, libObj, docStore, docObj, chunkStore,
                   nextLib, nextDoc, nextChunk,
                   lock, calls>>

\* delete_document_in_library: chunk_repo.delete(chunk.id), for the next chunk
delete_document_chunk_delete(t) ==
    /\ th[t].pc = "dd_chunk_delete"
    /\ chunkStore' = ChunkDel(chunkStore, Head(th[t].chunks).id)
    /\ th' = [th EXCEPT ![t] = Goto([@ EXCEPT !.chunks = Tail(@)],
                 IF Len(th[t].chunks) = 1 THEN "dd_remove" ELSE "dd_chunk_delete")]
    /\ UNCHANGED <<libStore, libObj, docStore, docObj,
                   nextLib, nextDoc, nextChunk,
                   lock, calls>>

\* delete_document_in_library: library.remove_document_id(document_id)
delete_document_remove(t) ==
    /\ th[t].pc = "dd_remove"
    /\ libObj' = [libObj EXCEPT ![th[t].library].document_ids =
                     RemoveDocumentId(@, th[t].document_id)]
    /\ th' = [th EXCEPT ![t] = Goto(@, "dd_update")]
    /\ UNCHANGED <<libStore, docStore, docObj, chunkStore,
                   nextLib, nextDoc, nextChunk,
                   lock, calls>>

\* delete_document_in_library: library_repo.update(library)
delete_document_update(t) ==
    /\ th[t].pc = "dd_update"
    /\ libStore' = DictSet(libStore, th[t].library)
    /\ th' = [th EXCEPT ![t] = Goto(@, "dd_delete")]
    /\ UNCHANGED <<libObj, docStore, docObj, chunkStore,
                   nextLib, nextDoc, nextChunk,
                   lock, calls>>

\* delete_document_in_library: document_repo.delete(document_id)
delete_document_delete(t) ==
    /\ th[t].pc = "dd_delete"
    /\ docStore' = DictDel(docStore, th[t].document_id)
    /\ th' = [th EXCEPT ![t] = Respond(@, 200)]
    /\ UNCHANGED <<libStore, libObj, docObj, chunkStore,
                   nextLib, nextDoc, nextChunk,
                   lock, calls>>

\* ------------------------------------------------ chunks.py
\* create_chunk_in_document: library = get_by_id, or 404
create_chunk_in_document(t, V) ==
    /\ CanCall(t)
    /\ nextChunk <= MaxChunks
    /\ \E lid \in LibIds, did \in DocIds, request \in V :
         LET r == [Called(t, "create_chunk_in_document") EXCEPT
                     !.library_id = lid, !.document_id = did,
                     !.vector = request.vector,
                     !.metadata = request.metadata, !.library = LibGet(lid)]
         IN  th' = [th EXCEPT ![t] =
                IF r.library = NoId THEN Respond(r, 404) ELSE Goto(r, "cc_get")]
    /\ UNCHANGED <<libStore, libObj, docStore, docObj, chunkStore,
                   nextLib, nextDoc, nextChunk,
                   lock, calls>>

\* create_chunk_in_document: document = get_by_id, 404 unless it is there and
\* document.library_id == library_id
create_chunk_get(t) ==
    /\ th[t].pc = "cc_get"
    /\ LET d == DocGet(th[t].document_id)
       IN  th' = [th EXCEPT ![t] =
               IF d = NoId THEN Respond(@, 404)
               ELSE IF docObj[d].library_id # th[t].library_id
                    THEN Respond([@ EXCEPT !.document = d], 404)
                    ELSE Goto([@ EXCEPT !.document = d], "cc_create")]
    /\ UNCHANGED <<libStore, libObj, docStore, docObj, chunkStore,
                   nextLib, nextDoc, nextChunk,
                   lock, calls>>

\* a create step that stores the chunk and lists it in the document at once
create_chunk_create_Atomic(t) ==
    /\ th[t].pc = "cc_create"
    /\ nextChunk <= MaxChunks
    /\ LET c == [id |-> nextChunk, vector |-> th[t].vector,
                 metadata |-> DefaultDict(th[t].metadata),
                 document_id |-> th[t].document_id]
       IN  /\ chunkStore' = ChunkSet(chunkStore, c)
           /\ docObj' = [docObj EXCEPT ![th[t].document].chunk_ids =
                            AddChunkId(@, c.id)]
           /\ th' = [th EXCEPT ![t] = Goto([@ EXCEPT !.chunk = c,
                                              !.chunk_id = c.id], "cc_add")]
    /\ nextChunk' = nextChunk + 1
    /\ UNCHANGED <<libStore, libObj, docStore, nextLib, nextDoc,
                   lock, calls>>

\* create_chunk_in_document: Chunk(...), chunk_repo.create(chunk)
create_chunk_create(t) ==
    /\ th[t].pc = "cc_create"
    /\ nextChunk <= MaxChunks
    /\ LET c == [id |-> nextChunk, vector |-> th[t].vector,
                 metadata |-> DefaultDict(th[t].metadata),
                 document_id |-> th[t].document_id]
       IN  /\ chunkStore' = ChunkSet(chunkStore, c)
           /\ th' = [th EXCEPT ![t] = Goto([@ EXCEPT !.chunk = c,
                                              !.chunk_id = c.id], "cc_add")]
    /\ nextChunk' = nextChunk + 1
    /\ UNCHANGED <<libStore, libObj, docStore, docObj, nextLib, nextDoc,
                   lock, calls>>

\* an add_chunk_id on a copy of the document as it was when the request began
create_chunk_add_Copy(t) ==
    /\ th[t].pc = "cc_add"
    /\ LET old == SelectSeq(th[t].pre.docs, LAMBDA d : d.id = th[t].document)
           ids == IF old = <<>> THEN <<>> ELSE old[1].chunk_ids
       IN  docObj' = [docObj EXCEPT ![th[t].document].chunk_ids =
                         AddChunkId(ids, th[t].chunk.id)]
    /\ th' = [th EXCEPT ![t] = Goto(@, "cc_update")]
    /\ UNCHANGED <<libStore, libObj, docStore, chunkStore,
                   nextLib, nextDoc, nextChunk,
                   lock, calls>>

\* create_chunk_in_document: document.add_chunk_id(chunk.id)
create_chunk_add(t) ==
    /\ th[t].pc = "cc_add"
    /\ docObj' = [docObj EXCEPT ![th[t].document].chunk_ids =
                     AddChunkId(@, th[t].chunk.id)]
    /\ th' = [th EXCEPT ![t] = Goto(@, "cc_update")]
    /\ UNCHANGED <<libStore, libObj, docStore, chunkStore,
                   nextLib, nextDoc, nextChunk,
                   lock, calls>>

\* create_chunk_in_document: document_repo.update(document), and the
\* response with the chunk's dimension
create_chunk_update(t) ==
    /\ th[t].pc = "cc_update"
    /\ docStore' = DictSet(docStore, th[t].document)
    /\ th' = [th EXCEPT ![t] = Respond([@ EXCEPT !.dimension =
                                        Dimension(th[t].chunk.vector)], 200)]
    /\ UNCHANGED <<libStore, libObj, docObj, chunkStore,
                   nextLib, nextDoc, nextChunk,
                   lock, calls>>

\* create_chunk_in_library: library = get_by_id, or 404
create_chunk_in_library(t, V) ==
    /\ CanCall(t)
    /\ nextChunk <= MaxChunks
    /\ \E lid \in LibIds, request \in V :
         LET r == [Called(t, "create_chunk_in_library") EXCEPT
                     !.library_id = lid, !.vector = request.vector,
                     !.metadata = request.metadata, !.library = LibGet(lid)]
         IN  th' = [th EXCEPT ![t] =
                IF r.library = NoId THEN Respond(r, 404) ELSE Goto(r, "cl_list")]
    /\ UNCHANGED <<libStore, libObj, docStore, docObj, chunkStore,
                   nextLib, nextDoc, nextChunk,
                   lock, calls>>

\* a search of the list that finds no default document
FirstDefault_None(docs) == NoId

\* a search of the list that takes the last document with the title prefix
FirstDefault_Last(docs) ==
    LET hits == SelectSeq(docs, LAMBDA d : StartsWithDefault(docObj[d].title))
    IN  IF hits = <<>> THEN NoId ELSE hits[Len(hits)]

\* the first document of the list whose title starts with "Default Document"
FirstDefault(docs) ==
    LET hits == SelectSeq(docs, LAMBDA d : StartsWithDefault(docObj[d].title))
    IN  IF hits = <<>> THEN NoId ELSE Head(hits)

\* create_chunk_in_library: documents = list_by_library_id, and the search
\* of the list for a default document
create_chunk_in_library_list(t) ==
    /\ th[t].pc = "cl_list"
    /\ LET docs == DocListByLibraryId(th[t].library_id)
           d == FirstDefault(docs)
       IN  th' = [th EXCEPT ![t] =
               Goto([@ EXCEPT !.documents = docs, !.document = d],
                    IF d = NoId THEN "cl_doc_create" ELSE "cl_create")]
    /\ UNCHANGED <<libStore, libObj, docStore, docObj, chunkStore,
                   nextLib, nextDoc, nextChunk,
                   lock, calls>>

\* create_chunk_in_library: Document(title="Default Document", ...),
\* document_repo.create(default_doc)
create_chunk_in_library_doc_create(t) ==
    /\ th[t].pc = "cl_doc_create"
    /\ nextDoc <= MaxDocs
    /\ docObj' = [docObj EXCEPT ![nextDoc] =
                     [title |-> DefaultTitle, content |-> DefaultContent,
                      metadata |-> DefaultMetadata,
                      library_id |-> th[t].library_id, chunk_ids |-> <<>>]]
    /\ docStore' = DictSet(docStore, nextDoc)
    /\ nextDoc' = nextDoc + 1
    /\ th' = [th EXCEPT ![t] = Goto([@ EXCEPT !.document = nextDoc], "cl_lib_add")]
    /\ UNCHANGED <<libStore, libObj, chunkStore, nextLib, nextChunk,
                   lock, calls>>

\* create_chunk_in_library: library.add_document_id(default_doc.id)
create_chunk_in_library_lib_add(t) ==
    /\ th[t].pc = "cl_lib_add"
    /\ libObj' = [libObj EXCEPT ![th[t].library].document_ids =
                     AddDocumentId(@, th[t].document)]
    /\ th' = [th EXCEPT ![t] = Goto(@, "cl_lib_update")]
    /\ UNCHANGED <<libStore, docStore, docObj, chunkStore,
                   nextLib, nextDoc, nextChunk,
                   lock, calls>>

\* create_chunk_in_library: library_repo.update(library)
create_chunk_in_library_lib_update(t) ==
    /\ th[t].pc = "cl_lib_update"
    /\ libStore' = DictSet(libStore, th[t].library)
    /\ th' = [th EXCEPT ![t] = Goto(@, "cl_create")]
    /\ UNCHANGED <<libObj, docStore, docObj, chunkStore,
                   nextLib, nextDoc, nextChunk,
                   lock, calls>>

\* create_chunk_in_library: Chunk(...), chunk_repo.create(chunk)
create_chunk_in_library_create(t) ==
    /\ th[t].pc = "cl_create"
    /\ nextChunk <= MaxChunks
    /\ LET c == [id |-> nextChunk, vector |-> th[t].vector,
                 metadata |-> DefaultDict(th[t].metadata),
                 document_id |-> th[t].document]
       IN  /\ chunkStore' = ChunkSet(chunkStore, c)
           /\ th' = [th EXCEPT ![t] = Goto([@ EXCEPT !.chunk = c,
                                              !.chunk_id = c.id], "cl_add")]
    /\ nextChunk' = nextChunk + 1
    /\ UNCHANGED <<libStore, libObj, docStore, docObj, nextLib, nextDoc,
                   lock, calls>>

\* create_chunk_in_library: default_doc.add_chunk_id(chunk.id)
create_chunk_in_library_add(t) ==
    /\ th[t].pc = "cl_add"
    /\ docObj' = [docObj EXCEPT ![th[t].document].chunk_ids =
                     AddChunkId(@, th[t].chunk.id)]
    /\ th' = [th EXCEPT ![t] = Goto(@, "cl_update")]
    /\ UNCHANGED <<libStore, libObj, docStore, chunkStore,
                   nextLib, nextDoc, nextChunk,
                   lock, calls>>

\* create_chunk_in_library: document_repo.update(default_doc), and the
\* response with the chunk's dimension
create_chunk_in_library_update(t) ==
    /\ th[t].pc = "cl_update"
    /\ docStore' = DictSet(docStore, th[t].document)
    /\ th' = [th EXCEPT ![t] = Respond([@ EXCEPT !.dimension =
                                        Dimension(th[t].chunk.vector)], 200)]
    /\ UNCHANGED <<libStore, libObj, docObj, chunkStore,
                   nextLib, nextDoc, nextChunk,
                   lock, calls>>

\* get_chunk_in_library: library = get_by_id, or 404
get_chunk_in_library(t) ==
    /\ CanCall(t)
    /\ \E lid \in LibIds, cid \in ChunkIds :
         LET r == [Called(t, "get_chunk_in_library") EXCEPT
                     !.library_id = lid, !.chunk_id = cid,
                     !.library = LibGet(lid)]
         IN  th' = [th EXCEPT ![t] =
                IF r.library = NoId THEN Respond(r, 404) ELSE Goto(r, "gc_get")]
    /\ UNCHANGED <<libStore, libObj, docStore, docObj, chunkStore,
                   nextLib, nextDoc, nextChunk,
                   lock, calls>>

\* get_chunk_in_library: chunk = get_by_id, 404 unless it is there and has a
\* document_id
get_chunk_in_library_get(t) ==
    /\ th[t].pc = "gc_get"
    /\ LET c == ChunkGet(th[t].chunk_id)
       IN  th' = [th EXCEPT ![t] =
               IF c = NoChunk \/ c.document_id = NoId
               THEN Respond([@ EXCEPT !.chunk = c], 404)
               ELSE Goto([@ EXCEPT !.chunk = c], "gc_doc")]
    /\ UNCHANGED <<libStore, libObj, docStore, docObj, chunkStore,
                   nextLib, nextDoc, nextChunk,
                   lock, calls>>

\* get_chunk_in_library: document = get_by_id(chunk.document_id), 404 unless
\* it is there and document.library_id == library_id; the response
get_chunk_in_library_doc(t) ==
    /\ th[t].pc = "gc_doc"
    /\ LET d == DocGet(th[t].chunk.document_id)
       IN  th' = [th EXCEPT ![t] =
               IF d = NoId THEN Respond(@, 404)
               ELSE IF docObj[d].library_id # th[t].library_id
                    THEN Respond([@ EXCEPT !.document = d], 404)
                    ELSE Respond([@ EXCEPT !.document = d,
                                    !.ret = <<th[t].chunk>>,
                                    !.dimension = Dimension(th[t].chunk.vector)],
                                 200)]
    /\ UNCHANGED <<libStore, libObj, docStore, docObj, chunkStore,
                   nextLib, nextDoc, nextChunk,
                   lock, calls>>

\* update_chunk_in_library: library = get_by_id, or 404; the body is a
\* CreateChunkRequest, with a document_id of its own, one of D
update_chunk_in_library(t, V, D) ==
    /\ CanCall(t)
    /\ \E lid \in LibIds, cid \in ChunkIds, request \in V, did \in D :
         LET r == [Called(t, "update_chunk_in_library") EXCEPT
                     !.library_id = lid, !.chunk_id = cid,
                     !.vector = request.vector,
                     !.metadata = request.metadata, !.document_id = did,
                     !.library = LibGet(lid)]
         IN  th' = [th EXCEPT ![t] =
                IF r.library = NoId THEN Respond(r, 404) ELSE Goto(r, "uc_get")]
    /\ UNCHANGED <<libStore, libObj, docStore, docObj, chunkStore,
                   nextLib, nextDoc, nextChunk,
                   lock, calls>>

\* update_chunk_in_library: chunk = get_by_id, 404 unless it is there and
\* has a document_id
update_chunk_get(t) ==
    /\ th[t].pc = "uc_get"
    /\ LET c == ChunkGet(th[t].chunk_id)
       IN  th' = [th EXCEPT ![t] =
               IF c = NoChunk \/ c.document_id = NoId
               THEN Respond([@ EXCEPT !.chunk = c], 404)
               ELSE Goto([@ EXCEPT !.chunk = c], "uc_doc")]
    /\ UNCHANGED <<libStore, libObj, docStore, docObj, chunkStore,
                   nextLib, nextDoc, nextChunk,
                   lock, calls>>

\* update_chunk_in_library: document = get_by_id(chunk.document_id), 404
\* unless it is there and document.library_id == library_id
update_chunk_doc(t) ==
    /\ th[t].pc = "uc_doc"
    /\ LET d == DocGet(th[t].chunk.document_id)
       IN  th' = [th EXCEPT ![t] =
               IF d = NoId THEN Respond(@, 404)
               ELSE IF docObj[d].library_id # th[t].library_id
                    THEN Respond([@ EXCEPT !.document = d], 404)
                    ELSE Goto([@ EXCEPT !.document = d], "uc_update")]
    /\ UNCHANGED <<libStore, libObj, docStore, docObj, chunkStore,
                   nextLib, nextDoc, nextChunk,
                   lock, calls>>

\* an update that takes the chunk's document_id from the request
update_chunk_update_Reassign(t) ==
    /\ th[t].pc = "uc_update"
    /\ LET c == [id |-> th[t].chunk_id, vector |-> th[t].vector,
                 metadata |-> DefaultDict(th[t].metadata),
                 document_id |-> th[t].document_id]
       IN  /\ chunkStore' = ChunkSet(chunkStore, c)
           /\ th' = [th EXCEPT ![t] = Respond([@ EXCEPT !.chunk = c,
                         !.dimension = Dimension(c.vector)], 200)]
    /\ UNCHANGED <<libStore, libObj, docStore, docObj,
                   nextLib, nextDoc, nextChunk,
                   lock, calls>>

\* update_chunk_in_library: Chunk(id=chunk_id, vector=request.vector,
\* metadata=request.metadata, document_id=chunk.document_id),
\* chunk_repo.update(updated_chunk), and the response with its dimension
update_chunk_update(t) ==
    /\ th[t].pc = "uc_update"
    /\ LET c == [id |-> th[t].chunk_id, vector |-> th[t].vector,
                 metadata |-> DefaultDict(th[t].metadata),
                 document_id |-> th[t].chunk.document_id]
       IN  /\ chunkStore' = ChunkSet(chunkStore, c)
           /\ th' = [th EXCEPT ![t] = Respond([@ EXCEPT !.chunk = c,
                         !.dimension = Dimension(c.vector)], 200)]
    /\ UNCHANGED <<libStore, libObj, docStore, docObj,
                   nextLib, nextDoc, nextChunk,
                   lock, calls>>

\* delete_chunk_in_library: library = get_by_id, or 404
delete_chunk_in_library(t) ==
    /\ CanCall(t)
    /\ \E lid \in LibIds, cid \in ChunkIds :
         LET r == [Called(t, "delete_chunk_in_library") EXCEPT
                     !.library_id = lid, !.chunk_id = cid,
                     !.library = LibGet(lid)]
         IN  th' = [th EXCEPT ![t] =
                IF r.library = NoId THEN Respond(r, 404) ELSE Goto(r, "dc_get")]
    /\ UNCHANGED <<libStore, libObj, docStore, docObj, chunkStore,
                   nextLib, nextDoc, nextChunk,
                   lock, calls>>

\* delete_chunk_in_library: chunk = get_by_id, 404 unless it is there and has
\* a document_id
delete_chunk_in_library_get(t) ==
    /\ th[t].pc = "dc_get"
    /\ LET c == ChunkGet(th[t].chunk_id)
       IN  th' = [th EXCEPT ![t] =
               IF c = NoChunk \/ c.document_id = NoId
               THEN Respond([@ EXCEPT !.chunk = c], 404)
               ELSE Goto([@ EXCEPT !.chunk = c], "dc_doc")]
    /\ UNCHANGED <<libStore, libObj, docStore, docObj, chunkStore,
                   nextLib, nextDoc, nextChunk,
                   lock, calls>>

\* a check of the chunk's document that does not look at its library_id
delete_chunk_in_library_doc_AnyLibrary(t) ==
    /\ th[t].pc = "dc_doc"
    /\ LET d == DocGet(th[t].chunk.document_id)
       IN  th' = [th EXCEPT ![t] =
               IF d = NoId THEN Respond(@, 404)
               ELSE Goto([@ EXCEPT !.document = d], "dc_remove")]
    /\ UNCHANGED <<libStore, libObj, docStore, docObj, chunkStore,
                   nextLib, nextDoc, nextChunk,
                   lock, calls>>

\* delete_chunk_in_library: document = get_by_id(chunk.document_id), 404
\* unless it is there and document.library_id == library_id
delete_chunk_in_library_doc(t) ==
    /\ th[t].pc = "dc_doc"
    /\ LET d == DocGet(th[t].chunk.document_id)
       IN  th' = [th EXCEPT ![t] =
               IF d = NoId THEN Respond(@, 404)
               ELSE IF docObj[d].library_id # th[t].library_id
                    THEN Respond([@ EXCEPT !.document = d], 404)
                    ELSE Goto([@ EXCEPT !.document = d], "dc_remove")]
    /\ UNCHANGED <<libStore, libObj, docStore, docObj, chunkStore,
                   nextLib, nextDoc, nextChunk,
                   lock, calls>>

\* delete_chunk_in_library: document.remove_chunk_id(chunk_id)
delete_chunk_in_library_remove(t) ==
    /\ th[t].pc = "dc_remove"
    /\ docObj' = [docObj EXCEPT ![th[t].document].chunk_ids =
                     RemoveChunkId(@, th[t].chunk_id)]
    /\ th' = [th EXCEPT ![t] = Goto(@, "dc_update")]
    /\ UNCHANGED <<libStore, libObj, docStore, chunkStore,
                   nextLib, nextDoc, nextChunk,
                   lock, calls>>

\* delete_chunk_in_library: document_repo.update(document)
delete_chunk_in_library_update(t) ==
    /\ th[t].pc = "dc_update"
    /\ docStore' = DictSet(docStore, th[t].document)
    /\ th' = [th EXCEPT ![t] = Goto(@, "dc_delete")]
    /\ UNCHANGED <<libStore, libObj, docObj, chunkStore,
                   nextLib, nextDoc, nextChunk,
                   lock, calls>>

\* delete_chunk_in_library: chunk_repo.delete(chunk_id)
delete_chunk_in_library_delete(t) ==
    /\ th[t].pc = "dc_delete"
    /\ chunkStore' = ChunkDel(chunkStore, th[t].chunk_id)
    /\ th' = [th EXCEPT ![t] = Respond(@, 200)]
    /\ UNCHANGED <<libStore, libObj, docStore, docObj,
                   nextLib, nextDoc, nextChunk,
                   lock, calls>>

\* create_chunk (legacy): Chunk(..., document_id=request.document_id),
\* chunk_repo.create(chunk)
create_chunk(t, V) ==
    /\ CanCall(t)
    /\ nextChunk <= MaxChunks
    /\ \E did \in DocIds \cup {NoId}, request \in V :
         LET c == [id |-> nextChunk, vector |-> request.vector,
                   metadata |-> DefaultDict(request.metadata),
                   document_id |-> did]
         IN  /\ chunkStore' = ChunkSet(chunkStore, c)
             /\ th' = [th EXCEPT ![t] =
                    Respond([Called(t, "create_chunk") EXCEPT
                               !.document_id = did, !.vector = request.vector,
                               !.metadata = request.metadata,
                               !.chunk = c, !.chunk_id = c.id,
                               !.dimension = Dimension(c.vector)], 200)]
    /\ nextChunk' = nextChunk + 1
    /\ UNCHANGED <<libStore, libObj, docStore, docObj, nextLib, nextDoc,
                   lock, calls>>

\* delete_chunk (legacy): chunk = get_by_id, or 404
delete_chunk(t) ==
    /\ CanCall(t)
    /\ \E cid \in ChunkIds :
         LET c == ChunkGet(cid)
             r == [Called(t, "delete_chunk") EXCEPT
                     !.chunk_id = cid, !.chunk = c]
         IN  th' = [th EXCEPT ![t] =
                IF c = NoChunk THEN Respond(r, 404)
                ELSE IF c.document_id # NoId THEN Goto(r, "lx_doc")
                     ELSE Goto(r, "lx_delete")]
    /\ UNCHANGED <<libStore, libObj, docStore, docObj, chunkStore,
                   nextLib, nextDoc, nextChunk,
                   lock, calls>>

\* delete_chunk (legacy): document = get_by_id(chunk.document_id)
delete_chunk_doc(t) ==
    /\ th[t].pc = "lx_doc"
    /\ LET d == DocGet(th[t].chunk.document_id)
       IN  th' = [th EXCEPT ![t] = Goto([@ EXCEPT !.document = d],
                     IF d = NoId THEN "lx_delete" ELSE "lx_remove")]
    /\ UNCHANGED <<libStore, libObj, docStore, docObj, chunkStore,
                   nextLib, nextDoc, nextChunk,
                   lock, calls>>

\* delete_chunk (legacy): document.remove_chunk_id(chunk_id)
delete_chunk_remove(t) ==
    /\ th[t].pc = "lx_remove"
    /\ docObj' = [docObj EXCEPT ![th[t].document].chunk_ids =
                     RemoveChunkId(@, th[t].chunk_id)]
    /\ th' = [th EXCEPT ![t] = Goto(@, "lx_update")]
    /\ UNCHANGED <<libStore, libObj, docStore, chunkStore,
                   nextLib, nextDoc, nextChunk,
                   lock, calls>>

\* delete_chunk (legacy): document_repo.update(document)
delete_chunk_update(t) ==
    /\ th[t].pc = "lx_update"
    /\ docStore' = DictSet(docStore, th[t].document)
    /\ th' = [th EXCEPT ![t] = Goto(@, "lx_delete")]
    /\ UNCHANGED <<libStore, libObj, docObj, chunkStore,
                   nextLib, nextDoc, nextChunk,
                   lock, calls>>

\* delete_chunk (legacy): chunk_repo.delete(chunk_id)
delete_chunk_delete(t) ==
    /\ th[t].pc = "lx_delete"
    /\ chunkStore' = ChunkDel(chunkStore, th[t].chunk_id)
    /\ th' = [th EXCEPT ![t] = Respond(@, 200)]
    /\ UNCHANGED <<libStore, libObj, docStore, docObj,
                   nextLib, nextDoc, nextChunk,
                   lock, calls>>

\* ------------------------------------------------ search.py
\* a search_library that validates the query vector before it looks the
\* library up
search_library_QueryFirst(t, Q, K) ==
    /\ CanCall(t)
    /\ \E lid \in LibIds, q \in Q, k \in K :
         LET r == [Called(t, "search_library") EXCEPT
                     !.library_id = lid, !.vector = q, !.top_k = k,
                     !.library = LibGet(lid)]
         IN  th' = [th EXCEPT ![t] =
                IF q = <<>> THEN Respond(r, 422)
                ELSE IF r.library = NoId THEN Respond(r, 404)
                     ELSE Goto(r, "s_docs")]
    /\ UNCHANGED <<libStore, libObj, docStore, docObj, chunkStore,
                   nextLib, nextDoc, nextChunk,
                   lock, calls>>

\* search_library: library = get_by_id, or 404; 422 for an empty query vector
search_library(t, Q, K) ==
    /\ CanCall(t)
    /\ \E lid \in LibIds, q \in Q, k \in K :
         LET r == [Called(t, "search_library") EXCEPT
                     !.library_id = lid, !.vector = q, !.top_k = k,
                     !.library = LibGet(lid)]
         IN  th' = [th EXCEPT ![t] =
                IF r.library = NoId THEN Respond(r, 404)
                ELSE IF q = <<>> THEN Respond(r, 422)
                     ELSE Goto(r, "s_docs")]
    /\ UNCHANGED <<libStore, libObj, docStore, docObj, chunkStore,
                   nextLib, nextDoc, nextChunk,
                   lock, calls>>

\* search_by_vector_similarity, list_by_library_id: the documents of the
\* library, under the Document Store's lock
search_docs(t) ==
    /\ th[t].pc = "s_docs"
    /\ th' = [th EXCEPT ![t] = Goto([@ EXCEPT !.documents =
                  DocListByLibraryId(th[t].library_id)], "s_chunks")]
    /\ UNCHANGED <<libStore, libObj, docStore, docObj, chunkStore,
                   nextLib, nextDoc, nextChunk,
                   lock, calls>>

\* search_by_vector_similarity, list_by_library_id: the chunks of those
\* documents, under the Chunk Store's lock; then the scoring, sort and cut
search_chunks(t) ==
    /\ th[t].pc = "s_chunks"
    /\ LET cs == ChunkListByDocumentIds(Range(th[t].documents))
       IN  th' = [th EXCEPT ![t] = Goto([@ EXCEPT !.chunks = cs,
                     !.results = SearchByVectorSimilarity(cs, th[t].vector,
                                                          th[t].top_k)],
                     "s_total_docs")]
    /\ UNCHANGED <<libStore, libObj, docStore, docObj, chunkStore,
                   nextLib, nextDoc, nextChunk,
                   lock, calls>>

\* search_library, all_chunks = list_by_library_id: the documents again
search_total_docs(t) ==
    /\ th[t].pc = "s_total_docs"
    /\ th' = [th EXCEPT ![t] = Goto([@ EXCEPT !.documents =
                  DocListByLibraryId(th[t].library_id)], "s_total_chunks")]
    /\ UNCHANGED <<libStore, libObj, docStore, docObj, chunkStore,
                   nextLib, nextDoc, nextChunk,
                   lock, calls>>

\* search_library, all_chunks = list_by_library_id: the chunks again, their
\* number, and the results whose chunk has a document_id
search_total_chunks(t) ==
    /\ th[t].pc = "s_total_chunks"
    /\ th' = [th EXCEPT ![t] = Respond([@ EXCEPT
                  !.total = Len(ChunkListByDocumentIds(Range(th[t].documents))),
                  !.results = SelectSeq(@, LAMBDA x : x.chunk.document_id # NoId)],
                  200)]
    /\ UNCHANGED <<libStore, libObj, docStore, docObj, chunkStore,
                   nextLib, nextDoc, nextChunk,
                   lock, calls>>

\* the response is sent; the handler's locals are dropped, and with them the
\* objects nothing refers to any more
Referenced(t) ==
    [libs |-> {th[u].library : u \in Threads \ {t}},
     docs |-> UNION {{th[u].document} \cup Range(th[u].documents)
                       : u \in Threads \ {t}}]

Return(t) ==
    /\ th[t].pc = "done"
    /\ th' = [th EXCEPT ![t] = Idle]
    /\ libObj' = [i \in 1..MaxLibs |->
                    IF Contains(libStore, i) \/ i \in Referenced(t).libs
                    THEN libObj[i] ELSE NullLib]
    /\ docObj' = [i \in 1..MaxDocs |->
                    IF Contains(docStore, i) \/ i \in Referenced(t).docs
                    THEN docObj[i] ELSE NullDoc]
    /\ UNCHANGED <<libStore, docStore, chunkStore, nextLib, nextDoc, nextChunk,
                   lock, calls>>

\* ------------------------------------------- in_memory_repository.py
\* The repository methods, called directly by concurrent callers: the
\* acquisition of self._lock, each access to self._store inside the with
\* block, and the release are steps of their own.

\* the values of a repository's dict, in dict order
StoreView(s) ==
    CASE s = "library" -> LibView
      [] s = "document" -> DocView
      [] s = "chunk" -> chunkStore

\* the entities a caller can hand to create or update
Entities(s) ==
    CASE s = "library" ->
           [id : 1..MaxLibs, name : RepoNames, description : {None},
            metadata : {{}}, document_ids : {<<>>}]
      [] s = "document" ->
           [id : 1..MaxDocs, title : {"T"}, content : {None},
            metadata : {{}}, library_id : 1..MaxLibs, chunk_ids : {<<>>}]
      [] s = "chunk" ->
           [id : 1..MaxChunks, vector : {<<1>>}, metadata : {{}},
            document_id : 1..MaxDocs]

\* the identifiers a caller can ask a repository for
Keys(s) ==
    CASE s = "library" -> 1..MaxLibs
      [] s = "document" -> 1..MaxDocs
      [] s = "chunk" -> 1..MaxChunks

\* what list_all / list_by_library_id / list_by_document_id keeps of a value
Listed(s, x, key) ==
    CASE s = "library" -> TRUE
      [] s = "document" -> x.library_id = key
      [] s = "chunk" -> x.document_id = key

\* a caller calls create, get_by_id, the repository's list method, update or
\* delete of one of the repositories
repo_call(t) ==
    /\ CanCall(t)
    /\ calls < MaxCalls
    /\ calls' = calls + 1
    /\ \E s \in Stores :
         \/ \E m \in {"create", "update"}, e \in Entities(s) :
                th' = [th EXCEPT ![t] = Goto([Called(t, m) EXCEPT
                          !.store = s, !.entity = e, !.key = e.id], "r_lock")]
         \/ \E m \in {"get_by_id", "list", "delete"}, k \in Keys(s) :
                th' = [th EXCEPT ![t] = Goto([Called(t, m) EXCEPT
                          !.store = s, !.key = k], "r_lock")]
         \/ /\ s = "chunk"
            /\ \E k \in Keys("library") :
                th' = [th EXCEPT ![t] = Goto([Called(t, "list_by_library_id")
                          EXCEPT !.store = "document", !.key = k], "r_lock")]
    /\ UNCHANGED <<libStore, libObj, docStore, docObj, chunkStore,
                   nextLib, nextDoc, nextChunk, lock>>

\* a with self._lock that does not wait for the lock to be free
repo_acquire_NoWait(t) ==
    /\ th[t].pc = "r_lock"
    /\ lock' = [lock EXCEPT ![th[t].store] = t]
    /\ th' = [th EXCEPT ![t] = Goto([@ EXCEPT !.pre = Snapshot, !.i = 1],
                 CASE th[t].op \in {"create", "update"} -> "r_assign"
                   [] th[t].op = "get_by_id" -> "r_get"
                   [] th[t].op \in {"list", "list_by_library_id"} -> "r_iter"
                   [] th[t].op = "delete" -> "r_test")]
    /\ UNCHANGED <<libStore, libObj, docStore, docObj, chunkStore,
                   nextLib, nextDoc, nextChunk, calls>>

\* with self._lock: the RLock is free, or held by this thread already
repo_acquire(t) ==
    /\ th[t].pc = "r_lock"
    /\ lock[th[t].store] \in {0, t}
    /\ lock' = [lock EXCEPT ![th[t].store] = t]
    /\ th' = [th EXCEPT ![t] = Goto([@ EXCEPT !.pre = Snapshot, !.i = 1],
                 CASE th[t].op \in {"create", "update"} -> "r_assign"
                   [] th[t].op = "get_by_id" -> "r_get"
                   [] th[t].op \in {"list", "list_by_library_id"} -> "r_iter"
                   [] th[t].op = "delete" -> "r_test")]
    /\ UNCHANGED <<libStore, libObj, docStore, docObj, chunkStore,
                   nextLib, nextDoc, nextChunk, calls>>

\* create / update: self._store[entity.id] = entity; return entity
repo_assign(t) ==
    /\ th[t].pc = "r_assign"
    /\ LET e == th[t].entity
       IN  \/ /\ th[t].store = "library"
              /\ libObj' = [libObj EXCEPT ![e.id] =
                               [name |-> e.name,
                                description |-> e.description,
                                metadata |-> e.metadata,
                                document_ids |-> e.document_ids]]
              /\ libStore' = DictSet(libStore, e.id)
              /\ UNCHANGED <<docStore, docObj, chunkStore>>
           \/ /\ th[t].store = "document"
              /\ docObj' = [docObj EXCEPT ![e.id] =
                               [title |-> e.title, content |-> e.content,
                                metadata |-> e.metadata,
                                library_id |-> e.library_id,
                                chunk_ids |-> e.chunk_ids]]
              /\ docStore' = DictSet(docStore, e.id)
              /\ UNCHANGED <<libStore, libObj, chunkStore>>
           \/ /\ th[t].store = "chunk"
              /\ chunkStore' = ChunkSet(chunkStore, e)
              /\ UNCHANGED <<libStore, libObj, docStore, docObj>>
    /\ th' = [th EXCEPT ![t] = Goto([@ EXCEPT !.ret = <<th[t].entity>>],
                                    "r_unlock")]
    /\ UNCHANGED <<nextLib, nextDoc, nextChunk, lock, calls>>

\* get_by_id: return self._store.get(id)
repo_get(t) ==
    /\ th[t].pc = "r_get"
    /\ th' = [th EXCEPT ![t] = Goto([@ EXCEPT !.ret =
                  SelectSeq(StoreView(th[t].store),
                            LAMBDA x : x.id = th[t].key)], "r_unlock")]
    /\ UNCHANGED <<libStore, libObj, docStore, docObj, chunkStore,
                   nextLib, nextDoc, nextChunk, lock, calls>>

\* InMemoryChunkRepository.list_by_library_id: what the method keeps of a
\* value, the documents of the library first and then the chunks whose
\* document_id is among their identifiers
ListedInLibrary(t, x) ==
    IF th[t].store = "document" THEN x.library_id = th[t].key
    ELSE x.document_id \in Range(th[t].documents)

\* list_all / list_by_library_id / list_by_document_id: the next value of
\* self._store.values(), kept when it passes the filter
repo_iter(t) ==
    /\ th[t].pc = "r_iter"
    /\ LET view == StoreView(th[t].store)
           kept(x) == IF th[t].op = "list_by_library_id"
                      THEN ListedInLibrary(t, x)
                      ELSE Listed(th[t].store, x, th[t].key)
       IN  th' = [th EXCEPT ![t] =
               IF th[t].i > Len(view) THEN Goto(@, "r_unlock")
               ELSE [@ EXCEPT !.i = @ + 1,
                       !.ret = IF kept(view[th[t].i])
                               THEN Append(@, view[th[t].i]) ELSE @]]
    /\ UNCHANGED <<libStore, libObj, docStore, docObj, chunkStore,
                   nextLib, nextDoc, nextChunk, lock, calls>>

\* delete: if id in self._store, else return False
repo_test(t) ==
    /\ th[t].pc = "r_test"
    /\ LET found == \E x \in Range(StoreView(th[t].store)) : x.id = th[t].key
       IN  th' = [th EXCEPT ![t] = Goto([@ EXCEPT !.flag = found],
                     IF found THEN "r_del" ELSE "r_unlock")]
    /\ UNCHANGED <<libStore, libObj, docStore, docObj, chunkStore,
                   nextLib, nextDoc, nextChunk, lock, calls>>

\* delete: del self._store[id]; return True (KeyError when the key is gone)
repo_del(t) ==
    /\ th[t].pc = "r_del"
    /\ \/ /\ th[t].store = "library"
          /\ libStore' = DictDel(libStore, th[t].key)
          /\ UNCHANGED <<docStore, chunkStore>>
       \/ /\ th[t].store = "document"
          /\ docStore' = DictDel(docStore, th[t].key)
          /\ UNCHANGED <<libStore, chunkStore>>
       \/ /\ th[t].store = "chunk"
          /\ chunkStore' = ChunkDel(chunkStore, th[t].key)
          /\ UNCHANGED <<libStore, docStore>>
    /\ th' = [th EXCEPT ![t] = Goto([@ EXCEPT !.raised =
                  IF \E x \in Range(StoreView(th[t].store)) : x.id = th[t].key
                  THEN "none" ELSE "KeyError"], "r_unlock")]
    /\ UNCHANGED <<libObj, docObj, nextLib, nextDoc, nextChunk, lock, calls>>

\* the documents of the library are listed; their identifiers are kept and
\* the method goes on to the lock of the Chunk Store
ToChunks(r) ==
    Goto([r EXCEPT !.documents = [i \in 1..Len(r.ret) |-> r.ret[i].id],
                   !.ret = <<>>, !.store = "chunk"], "r_lock")

\* a list_by_library_id that keeps the Document Store's lock while it goes on
\* to the Chunk Store
repo_list_release_Keep(t) ==
    /\ th[t].pc = "r_unlock"
    /\ th[t].op = "list_by_library_id"
    /\ th[t].store = "document"
    /\ th' = [th EXCEPT ![t] = ToChunks(@)]
    /\ UNCHANGED <<libStore, libObj, docStore, docObj, chunkStore,
                   nextLib, nextDoc, nextChunk, lock, calls>>

\* InMemoryChunkRepository.list_by_library_id: the await of
\* document_repo.list_by_library_id returns, its lock released
repo_list_release(t) ==
    /\ th[t].pc = "r_unlock"
    /\ th[t].op = "list_by_library_id"
    /\ th[t].store = "document"
    /\ lock' = [lock EXCEPT !["document"] = 0]
    /\ th' = [th EXCEPT ![t] = ToChunks(@)]
    /\ UNCHANGED <<libStore, libObj, docStore, docObj, chunkStore,
                   nextLib, nextDoc, nextChunk, calls>>

\* a method that returns without releasing self._lock
repo_release_Keep(t) ==
    /\ th[t].pc = "r_unlock"
    /\ ~(th[t].op = "list_by_library_id" /\ th[t].store = "document")
    /\ th' = [th EXCEPT ![t] = Goto(@, "done")]
    /\ UNCHANGED <<libStore, libObj, docStore, docObj, chunkStore,
                   nextLib, nextDoc, nextChunk, lock, calls>>

\* the with block is left: self._lock is released, the method returns
repo_release(t) ==
    /\ th[t].pc = "r_unlock"
    /\ ~(th[t].op = "list_by_library_id" /\ th[t].store = "document")
    /\ lock' = [lock EXCEPT ![th[t].store] = 0]
    /\ th' = [th EXCEPT ![t] = Goto(@, "done")]
    /\ UNCHANGED <<libStore, libObj, docStore, docObj, chunkStore,
                   nextLib, nextDoc, nextChunk, calls>>

\* one step of a repository method called by thread t
RepoStep(t) ==
    \/ repo_call(t)
    \/ repo_acquire(t)
    \/ repo_assign(t)
    \/ repo_get(t)
    \/ repo_iter(t)
    \/ repo_test(t)
    \/ repo_del(t)
    \/ repo_list_release(t)
    \/ repo_release(t)

\* one step of a handler of libraries.py by thread t
LibraryStep(t) ==
    \/ create_library(t, CreateLibraryRequests)
    \/ get_library(t)
    \/ update_library(t, UpdateLibraryRequests)
    \/ update_library_patch(t)
    \/ update_library_update(t)
    \/ delete_library(t)
    \/ delete_library_list(t)
    \/ delete_library_chunks(t)
    \/ delete_library_chunk_delete(t)
    \/ delete_library_doc_delete(t)
    \/ delete_library_delete(t)

\* one step of a handler of documents.py; requests draw titles from T
DocumentStep(t, T) ==
    \/ create_document_in_library(t, CreateDocumentRequests(T))
    \/ create_document_create(t)
    \/ create_document_add(t)
    \/ create_document_update(t)
    \/ get_document_in_library(t)
    \/ get_document_get(t)
    \/ update_document_in_library(t, UpdateDocumentRequests(T))
    \/ update_document_get(t)
    \/ update_document_patch(t)
    \/ update_document_update(t)
    \/ delete_document_in_library(t)
    \/ delete_document_get(t)
    \/ delete_document_list(t)
    \/ delete_document_chunk_delete(t)
    \/ delete_document_remove(t)
    \/ delete_document_update(t)
    \/ delete_document_delete(t)

\* one step of a handler of chunks.py; requests that create a chunk draw
\* their bodies from V, requests that update one from U
ChunkStep(t, V, U) ==
    \/ create_chunk_in_document(t, V)
    \/ create_chunk_get(t)
    \/ create_chunk_create(t)
    \/ create_chunk_add(t)
    \/ create_chunk_update(t)
    \/ create_chunk_in_library(t, V)
    \/ create_chunk_in_library_list(t)
    \/ create_chunk_in_library_doc_create(t)
    \/ create_chunk_in_library_lib_add(t)
    \/ create_chunk_in_library_lib_update(t)
    \/ create_chunk_in_library_create(t)
    \/ create_chunk_in_library_add(t)
    \/ create_chunk_in_library_update(t)
    \/ get_chunk_in_library(t)
    \/ get_chunk_in_library_get(t)
    \/ get_chunk_in_library_doc(t)
    \/ update_chunk_in_library(t, U, {NoId})
    \/ update_chunk_get(t)
    \/ update_chunk_doc(t)
    \/ update_chunk_update(t)
    \/ delete_chunk_in_library(t)
    \/ delete_chunk_in_library_get(t)
    \/ delete_chunk_in_library_doc(t)
    \/ delete_chunk_in_library_remove(t)
    \/ delete_chunk_in_library_update(t)
    \/ delete_chunk_in_library_delete(t)
    \/ create_chunk(t, V)
    \/ delete_chunk(t)
    \/ delete_chunk_doc(t)
    \/ delete_chunk_remove(t)
    \/ delete_chunk_update(t)
    \/ delete_chunk_delete(t)

\* one step of thread t
Step(t, V, T) ==
    \/ LibraryStep(t)
    \/ DocumentStep(t, T)
    \/ ChunkStep(t, CreateChunkRequests(V), CreateChunkRequests(V))
    \/ Return(t)

\* one step of a search by thread t, with query vectors Q and top_k in K
SearchStep(t, Q, K) ==
    \/ search_library(t, Q, K)
    \/ search_docs(t)
    \/ search_chunks(t)
    \/ search_total_docs(t)
    \/ search_total_chunks(t)

\* requests are served one at a time, by one thread
Next == \E t \in {1} : Step(t, HierVectors, Titles)

Spec == Init /\ [][Next]_vars

\* searches, one request at a time, over the stores that library and document
\* creation and the handlers of chunks.py build, with the chunk vectors that
\* rank differently
SearchNext ==
    \E t \in {1} :
        \/ create_library(t, CreateLibraryRequests)
        \/ create_document_in_library(t, CreateDocumentRequests({"T"}))
        \/ create_document_create(t)
        \/ create_document_add(t)
        \/ create_document_update(t)
        \/ ChunkStep(t, CreateChunkRequests(Vectors),
                     CreateChunkRequests(UpdateVectors))
        \/ SearchStep(t, Queries, TopKs)
        \/ Return(t)

SearchSpec == Init /\ [][SearchNext]_vars

\* one thread searches while another builds a library and creates and
\* deletes chunks in it
ConcSearchNext ==
    \/ \E t \in {1} :
           \/ SearchStep(t, {<<1>>}, {2})
           \/ Return(t)
    \/ \E t \in {2} :
           \/ create_library(t, CreateLibraryRequests)
           \/ create_document_in_library(t, CreateDocumentRequests({"T"}))
           \/ create_document_create(t)
           \/ create_document_add(t)
           \/ create_document_update(t)
           \/ create_chunk_in_document(t, CreateChunkRequests({<<1>>}))
           \/ create_chunk_get(t)
           \/ create_chunk_create(t)
           \/ create_chunk_add(t)
           \/ create_chunk_update(t)
           \/ delete_chunk_in_library(t)
           \/ delete_chunk_in_library_get(t)
           \/ delete_chunk_in_library_doc(t)
           \/ delete_chunk_in_library_remove(t)
           \/ delete_chunk_in_library_update(t)
           \/ delete_chunk_in_library_delete(t)
           \/ Return(t)

ConcSearchSpec == Init /\ [][ConcSearchNext]_vars

\* updates of libraries and documents whose fields were all given at their
\* creation, one request at a time
PatchNext ==
    \E t \in {1} :
        \/ (nextLib <= PatchLibs /\ create_library(t, FullLibraryRequests))
        \/ update_library(t, PatchLibraryRequests)
        \/ update_library_patch(t)
        \/ update_library_update(t)
        \/ create_document_in_library(t, FullDocumentRequests)
        \/ create_document_create(t)
        \/ create_document_add(t)
        \/ create_document_update(t)
        \/ update_document_in_library(t, PatchDocumentRequests)
        \/ update_document_get(t)
        \/ update_document_patch(t)
        \/ update_document_update(t)
        \/ create_chunk_in_document(t, CreateChunkRequests({<<1>>}))
        \/ create_chunk_get(t)
        \/ create_chunk_create(t)
        \/ create_chunk_add(t)
        \/ create_chunk_update(t)
        \/ Return(t)

PatchSpec == Init /\ [][PatchNext]_vars

\* a call of Library.add_document_id on a stored library, with any document
\* identifier, a member of its list or not
add_document_id(t) ==
    /\ CanCall(t)
    /\ \E l \in LibIds, d \in DocIds :
         /\ Contains(libStore, l)
         /\ libObj' = [libObj EXCEPT ![l].document_ids = AddDocumentId(@, d)]
         /\ th' = [th EXCEPT ![t] =
                [Called(t, "add_document_id") EXCEPT
                   !.library = l, !.document_id = d, !.pc = "done"]]
    /\ UNCHANGED <<libStore, docStore, docObj, chunkStore,
                   nextLib, nextDoc, nextChunk,
                   lock, calls>>

\* a call of Document.add_chunk_id on a stored document, with any chunk
\* identifier, a member of its list or not
add_chunk_id(t) ==
    /\ CanCall(t)
    /\ \E d \in DocIds, c \in ChunkIds :
         /\ Contains(docStore, d)
         /\ docObj' = [docObj EXCEPT ![d].chunk_ids = AddChunkId(@, c)]
         /\ th' = [th EXCEPT ![t] =
                [Called(t, "add_chunk_id") EXCEPT
                   !.document = d, !.chunk_id = c, !.pc = "done"]]
    /\ UNCHANGED <<libStore, libObj, docStore, chunkStore,
                   nextLib, nextDoc, nextChunk,
                   lock, calls>>

\* the two lists under the handlers that add to them and remove from them,
\* and under direct calls of the two add methods, one call at a time
ListNext ==
    \E t \in {1} :
        \/ (nextLib <= ListLibs /\ create_library(t, CreateLibraryRequests))
        \/ create_document_in_library(t, CreateDocumentRequests({"T"}))
        \/ create_document_create(t)
        \/ create_document_add(t)
        \/ create_document_update(t)
        \/ create_chunk_in_document(t, CreateChunkRequests({<<1>>}))
        \/ create_chunk_get(t)
        \/ create_chunk_create(t)
        \/ create_chunk_add(t)
        \/ create_chunk_update(t)
        \/ delete_chunk_in_library(t)
        \/ delete_chunk_in_library_get(t)
        \/ delete_chunk_in_library_doc(t)
        \/ delete_chunk_in_library_remove(t)
        \/ delete_chunk_in_library_update(t)
        \/ delete_chunk_in_library_delete(t)
        \/ add_document_id(t)
        \/ add_chunk_id(t)
        \/ Return(t)

ListSpec == Init /\ [][ListNext]_vars

\* chunks added to libraries that have no document, one request at a time
AddChunkNext ==
    \E t \in {1} :
        \/ create_library(t, CreateLibraryRequests)
        \/ create_chunk_in_library(t, CreateChunkRequests(HierVectors))
        \/ create_chunk_in_library_list(t)
        \/ create_chunk_in_library_doc_create(t)
        \/ create_chunk_in_library_lib_add(t)
        \/ create_chunk_in_library_lib_update(t)
        \/ create_chunk_in_library_create(t)
        \/ create_chunk_in_library_add(t)
        \/ create_chunk_in_library_update(t)
        \/ Return(t)

AddChunkSpec == Init /\ [][AddChunkNext]_vars

\* updates of chunks that were created with metadata, one request at a time
ChunkPatchNext ==
    \E t \in {1} :
        \/ create_library(t, CreateLibraryRequests)
        \/ create_document_in_library(t, CreateDocumentRequests({"T"}))
        \/ create_document_create(t)
        \/ create_document_add(t)
        \/ create_document_update(t)
        \/ create_chunk_in_document(t, FullChunkRequests)
        \/ create_chunk_get(t)
        \/ create_chunk_create(t)
        \/ create_chunk_add(t)
        \/ create_chunk_update(t)
        \/ update_chunk_in_library(t, PatchChunkRequests, DocIds \cup {NoId})
        \/ update_chunk_get(t)
        \/ update_chunk_doc(t)
        \/ update_chunk_update(t)
        \/ Return(t)

ChunkPatchSpec == Init /\ [][ChunkPatchNext]_vars

\* one thread reads libraries, documents and chunks while another creates a
\* library, documents and chunks and renames the library
ConcReadNext ==
    \/ \E t \in {1} :
           \/ get_library(t)
           \/ get_document_in_library(t)
           \/ get_document_get(t)
           \/ get_chunk_in_library(t)
           \/ get_chunk_in_library_get(t)
           \/ get_chunk_in_library_doc(t)
           \/ Return(t)
    \/ \E t \in {2} :
           \/ create_library(t, CreateLibraryRequests)
           \/ update_library(t, RenameRequests)
           \/ update_library_patch(t)
           \/ update_library_update(t)
           \/ create_document_in_library(t, CreateDocumentRequests({"T"}))
           \/ create_document_create(t)
           \/ create_document_add(t)
           \/ create_document_update(t)
           \/ create_chunk_in_document(t, CreateChunkRequests({<<1>>}))
           \/ create_chunk_get(t)
           \/ create_chunk_create(t)
           \/ create_chunk_add(t)
           \/ create_chunk_update(t)
           \/ Return(t)

ConcReadSpec == Init /\ [][ConcReadNext]_vars

\* a library with one document that holds three chunks, as three
\* create_chunk_in_document requests leave them
RankInit ==
    /\ libStore = <<1>>
    /\ libObj = [i \in 1..MaxLibs |->
                   IF i = 1 THEN [NullLib EXCEPT !.name = "Docs",
                                                 !.document_ids = <<1>>]
                   ELSE NullLib]
    /\ docStore = <<1>>
    /\ docObj = [i \in 1..MaxDocs |->
                   IF i = 1 THEN [NullDoc EXCEPT !.title = "T",
                                                 !.library_id = 1,
                                                 !.chunk_ids = <<1, 2, 3>>]
                   ELSE NullDoc]
    /\ chunkStore \in [1..3 -> [id : 1..3, vector : RankVectors,
                                 metadata : {{}}, document_id : {1}]]
    /\ \A i \in 1..3 : chunkStore[i].id = i
    /\ nextLib = 2
    /\ nextDoc = 2
    /\ nextChunk = 4
    /\ th = [t \in Threads |-> Idle]
    /\ lock = [s \in Stores |-> 0]
    /\ calls = 0

\* searches of that library, one request at a time
RankNext ==
    \E t \in {1} :
        \/ search_library(t, RankQueries, RankTopKs)
        \/ search_docs(t)
        \/ search_chunks(t)
        \/ search_total_docs(t)
        \/ search_total_chunks(t)
        \/ Return(t)

RankSpec == RankInit /\ [][RankNext]_vars

\* one thread deletes documents while another creates the library, a document
\* and chunks under it and retitles the document
ConcDocDeleteNext ==
    \/ \E t \in {1} :
           \/ delete_document_in_library(t)
           \/ delete_document_get(t)
           \/ delete_document_list(t)
           \/ delete_document_chunk_delete(t)
           \/ delete_document_remove(t)
           \/ delete_document_update(t)
           \/ delete_document_delete(t)
           \/ Return(t)
    \/ \E t \in {2} :
           \/ (nextLib <= ConcLibs /\ create_library(t, CreateLibraryRequests))
           \/ (nextDoc <= ConcDocs
                 /\ create_document_in_library(t, CreateDocumentRequests({"T"})))
           \/ create_document_create(t)
           \/ create_document_add(t)
           \/ create_document_update(t)
           \/ update_document_in_library(t, RetitleRequests)
           \/ update_document_get(t)
           \/ update_document_patch(t)
           \/ update_document_update(t)
           \/ create_chunk_in_document(t, CreateChunkRequests({<<1>>}))
           \/ create_chunk_get(t)
           \/ create_chunk_create(t)
           \/ create_chunk_add(t)
           \/ create_chunk_update(t)
           \/ Return(t)

ConcDocDeleteSpec == Init /\ [][ConcDocDeleteNext]_vars

\* one request deletes a library while another thread's requests create a
\* document in it, rename it, delete a document of it or add a chunk to it
ConcLibDeleteNext ==
    \/ \E t \in {1} :
           \/ delete_library(t)
           \/ delete_library_list(t)
           \/ delete_library_chunks(t)
           \/ delete_library_chunk_delete(t)
           \/ delete_library_doc_delete(t)
           \/ delete_library_delete(t)
           \/ Return(t)
    \/ \E t \in {2} :
           \/ (nextLib <= ConcLibs /\ create_library(t, CreateLibraryRequests))
           \/ update_library(t, RenameRequests)
           \/ update_library_patch(t)
           \/ update_library_update(t)
           \/ (nextDoc <= ConcDocs
                 /\ create_document_in_library(t, CreateDocumentRequests({"T"})))
           \/ create_document_create(t)
           \/ create_document_add(t)
           \/ create_document_update(t)
           \/ delete_document_in_library(t)
           \/ delete_document_get(t)
           \/ delete_document_list(t)
           \/ delete_document_chunk_delete(t)
           \/ delete_document_remove(t)
           \/ delete_document_update(t)
           \/ delete_document_delete(t)
           \/ create_chunk_in_library(t, CreateChunkRequests({<<1>>}))
           \/ create_chunk_in_library_list(t)
           \/ create_chunk_in_library_doc_create(t)
           \/ create_chunk_in_library_lib_add(t)
           \/ create_chunk_in_library_lib_update(t)
           \/ create_chunk_in_library_create(t)
           \/ create_chunk_in_library_add(t)
           \/ create_chunk_in_library_update(t)
           \/ Return(t)

ConcLibDeleteSpec == Init /\ [][ConcLibDeleteNext]_vars

\* requests on every thread create documents in a library and chunks in a
\* document
ConcCreateNext ==
    \E t \in Threads :
        \/ (nextLib <= ConcLibs /\ create_library(t, CreateLibraryRequests))
        \/ create_document_in_library(t, CreateDocumentRequests({"T"}))
        \/ create_document_create(t)
        \/ create_document_add(t)
        \/ create_document_update(t)
        \/ create_chunk_in_document(t, CreateChunkRequests({<<1>>}))
        \/ create_chunk_get(t)
        \/ create_chunk_create(t)
        \/ create_chunk_add(t)
        \/ create_chunk_update(t)
        \/ Return(t)

ConcCreateSpec == Init /\ [][ConcCreateNext]_vars

\* one request deletes a library while another thread's requests create a
\* document in it or a chunk in one of its documents, or add a chunk to it
ConcCascadeNext ==
    \/ \E t \in {1} :
           \/ delete_library(t)
           \/ delete_library_list(t)
           \/ delete_library_chunks(t)
           \/ delete_library_chunk_delete(t)
           \/ delete_library_doc_delete(t)
           \/ delete_library_delete(t)
           \/ Return(t)
    \/ \E t \in {2} :
           \/ (nextLib <= ConcLibs /\ create_library(t, CreateLibraryRequests))
           \/ (nextDoc <= ConcDocs
                 /\ create_document_in_library(t, CreateDocumentRequests({"T"})))
           \/ create_document_create(t)
           \/ create_document_add(t)
           \/ create_document_update(t)
           \/ create_chunk_in_document(t, CreateChunkRequests({<<1>>}))
           \/ create_chunk_get(t)
           \/ create_chunk_create(t)
           \/ create_chunk_add(t)
           \/ create_chunk_update(t)
           \/ create_chunk_in_library(t, CreateChunkRequests({<<1>>}))
           \/ create_chunk_in_library_list(t)
           \/ create_chunk_in_library_doc_create(t)
           \/ create_chunk_in_library_lib_add(t)
           \/ create_chunk_in_library_lib_update(t)
           \/ create_chunk_in_library_create(t)
           \/ create_chunk_in_library_add(t)
           \/ create_chunk_in_library_update(t)
           \/ Return(t)

ConcCascadeSpec == Init /\ [][ConcCascadeNext]_vars

\* requests on every thread add chunks to a library
ConcAddChunkNext ==
    \E t \in Threads :
        \/ (nextLib <= ConcLibs /\ create_library(t, CreateLibraryRequests))
        \/ create_chunk_in_library(t, CreateChunkRequests({<<1>>}))
        \/ create_chunk_in_library_list(t)
        \/ create_chunk_in_library_doc_create(t)
        \/ create_chunk_in_library_lib_add(t)
        \/ create_chunk_in_library_lib_update(t)
        \/ create_chunk_in_library_create(t)
        \/ create_chunk_in_library_add(t)
        \/ create_chunk_in_library_update(t)
        \/ Return(t)

ConcAddChunkSpec == Init /\ [][ConcAddChunkNext]_vars

\* callers on several threads call the repository methods directly
RepoNext ==
    \E t \in Threads :
        \/ RepoStep(t)
        \/ Return(t)

RepoSpec == Init /\ [][RepoNext]_vars

\* the same callers; a thread that can take a step is scheduled in the end,
\* and a thread that finds the lock free again and again gets it in the end
RepoFairNext ==
    \E t \in Threads :
        \/ (calls < FairCalls /\ repo_call(t))
        \/ repo_acquire(t)
        \/ repo_assign(t)
        \/ repo_get(t)
        \/ repo_iter(t)
        \/ repo_test(t)
        \/ repo_del(t)
        \/ repo_list_release(t)
        \/ repo_release(t)
        \/ Return(t)

RepoFairSpec ==
    /\ Init
    /\ [][RepoFairNext]_vars
    /\ \A t \in Threads :
           /\ WF_vars(repo_assign(t) \/ repo_get(t) \/ repo_iter(t)
                        \/ repo_test(t) \/ repo_del(t)
                        \/ repo_list_release(t) \/ repo_release(t))
           /\ SF_vars(repo_acquire(t))


\* ------------------------------------------------------------ claims
Finished(t, op) == th[t].pc = "done" /\ th[t].op = op

SeqIds(view) == {view[i].id : i \in 1..Len(view)}

\* the entry of a store view with the given identifier
Entry(view, id) == view[CHOOSE i \in 1..Len(view) : view[i].id = id]

\* C1: delete_library(L) on a library L that is in the Library Store, with no
\* other operation overlapping, ends with success, L absent from the Library
\* Store, no document with library reference L in the Document Store, and no
\* chunk in the Chunk Store whose document reference names a document that
\* belonged to L.
C1_DeleteLibraryCascade ==
    \A t \in Threads :
        (Finished(t, "delete_library")
            /\ th[t].library_id \in SeqIds(th[t].pre.libs)) =>
        LET L == th[t].library_id
            docsOfL == {th[t].pre.docs[i].id : i \in
                          {j \in 1..Len(th[t].pre.docs) :
                              th[t].pre.docs[j].library_id = L}}
        IN  /\ th[t].status = 200
            /\ L \notin SeqIds(LibView)
            /\ \A i \in 1..Len(DocView) :
                   DocView[i].library_id # L /\ DocView[i].id \notin docsOfL
            /\ \A i \in 1..Len(chunkStore) :
                   chunkStore[i].document_id \notin docsOfL

\* a library with two documents, one of them holding a chunk, was deleted
C1_Witness ==
    \E t \in Threads :
        /\ Finished(t, "delete_library")
        /\ th[t].status = 200
        /\ Cardinality({i \in 1..Len(th[t].pre.docs) :
               th[t].pre.docs[i].library_id = th[t].library_id}) = 2
        /\ \E i \in 1..Len(th[t].pre.chunks) :
               \E j \in 1..Len(th[t].pre.docs) :
                   /\ th[t].pre.docs[j].library_id = th[t].library_id
                   /\ th[t].pre.chunks[i].document_id = th[t].pre.docs[j].id

\* C2: delete_document(D) on a document D of the Document Store, named with
\* its own library, with no other operation overlapping, ends with success,
\* every chunk identifier of D's chunk list absent from the Chunk Store, D
\* absent from the Document Store and D's identifier absent from the document
\* list of its parent library.
C2_DeleteDocumentCascade ==
    \A t \in Threads :
        (Finished(t, "delete_document_in_library")
            /\ th[t].library_id \in SeqIds(th[t].pre.libs)
            /\ th[t].document_id \in SeqIds(th[t].pre.docs)
            /\ Entry(th[t].pre.docs, th[t].document_id).library_id
                 = th[t].library_id) =>
        LET D == Entry(th[t].pre.docs, th[t].document_id)
        IN  /\ th[t].status = 200
            /\ \A k \in 1..Len(D.chunk_ids) :
                   D.chunk_ids[k] \notin SeqIds(chunkStore)
            /\ D.id \notin SeqIds(DocView)
            /\ \A i \in 1..Len(LibView) :
                   LibView[i].id = D.library_id =>
                       ~Contains(LibView[i].document_ids, D.id)

\* a document with a chunk in its list, listed by its library, was deleted
C2_Witness ==
    \E t \in Threads :
        /\ Finished(t, "delete_document_in_library")
        /\ th[t].status = 200
        /\ Entry(th[t].pre.docs, th[t].document_id).chunk_ids # <<>>
        /\ Contains(Entry(th[t].pre.libs, th[t].library_id).document_ids,
                    th[t].document_id)

\* C3: when no operation is in progress, every chunk identifier in the chunk
\* list of a stored document is the identifier of a stored chunk whose
\* document reference is that document.
C3_ChunkListsResolve ==
    Quiescent =>
        \A i \in 1..Len(DocView) :
            \A k \in 1..Len(DocView[i].chunk_ids) :
                \E j \in 1..Len(chunkStore) :
                    /\ chunkStore[j].id = DocView[i].chunk_ids[k]
                    /\ chunkStore[j].document_id = DocView[i].id

\* a chunk was deleted from a document that keeps another chunk
C3_Witness ==
    /\ Quiescent
    /\ \E i \in 1..Len(DocView) :
           /\ Len(DocView[i].chunk_ids) = 1
           /\ DocView[i].chunk_ids[1] = 2
           /\ nextChunk = 3
           /\ Len(chunkStore) = 1

\* C4: when no operation is in progress, every document identifier in the
\* document list of a stored library is the identifier of a stored document
\* whose library reference is that library.
C4_DocumentListsResolve ==
    Quiescent =>
        \A i \in 1..Len(LibView) :
            \A k \in 1..Len(LibView[i].document_ids) :
                \E j \in 1..Len(DocView) :
                    /\ DocView[j].id = LibView[i].document_ids[k]
                    /\ DocView[j].library_id = LibView[i].id

\* one library was deleted with its document while another keeps its own
C4_Witness ==
    /\ Quiescent
    /\ nextLib = 3
    /\ nextDoc = 3
    /\ Len(LibView) = 1
    /\ Len(DocView) = 1
    /\ LibView[1].document_ids = <<DocView[1].id>>

\* C5: when no operation is in progress, every stored chunk with a document
\* reference names a stored document whose chunk list holds the chunk's
\* identifier.
C5_ChunkParentListsIt ==
    Quiescent =>
        \A j \in 1..Len(chunkStore) :
            chunkStore[j].document_id # NoId =>
                \E i \in 1..Len(DocView) :
                    /\ DocView[i].id = chunkStore[j].document_id
                    /\ Contains(DocView[i].chunk_ids, chunkStore[j].id)

\* C6: an operation that creates a chunk naming a parent document that is
\* not in the Document Store ends with NotFound and leaves the three stores
\* as they were.
C6_CreateChunkNeedsDocument ==
    \A t \in Threads :
        (th[t].pc = "done"
            /\ th[t].op \in {"create_chunk_in_document", "create_chunk"}
            /\ th[t].document_id # NoId
            /\ th[t].document_id \notin SeqIds(th[t].pre.docs)) =>
        (th[t].status = 404 /\ Snapshot = th[t].pre)

\* C7: create_chunk under a stored document D of the library, with no other
\* operation overlapping, succeeds; the new identifier was not in the Chunk
\* Store before; the chunk is stored with document reference D; D's chunk
\* list is its previous list with the new identifier appended; and between
\* the insertion into the Chunk Store and the update of the document the
\* chunk is stored while D's list is still the previous one.
C7_CreateChunkAppends ==
    \A t \in Threads :
        (th[t].op = "create_chunk_in_document"
            /\ th[t].library_id \in SeqIds(th[t].pre.libs)
            /\ th[t].document_id \in SeqIds(th[t].pre.docs)
            /\ Entry(th[t].pre.docs, th[t].document_id).library_id
                 = th[t].library_id) =>
        LET D == Entry(th[t].pre.docs, th[t].document_id)
            c == [id |-> th[t].chunk_id, vector |-> th[t].vector,
                  metadata |-> DefaultDict(th[t].metadata),
                  document_id |-> D.id]
        IN  /\ th[t].pc = "done" =>
                /\ th[t].status = 200
                /\ c.id \notin SeqIds(th[t].pre.chunks)
                /\ chunkStore = Append(th[t].pre.chunks, c)
                /\ Entry(DocView, D.id).chunk_ids = Append(D.chunk_ids, c.id)
            /\ th[t].pc = "cc_add" =>
                /\ chunkStore = Append(th[t].pre.chunks, c)
                /\ Entry(DocView, D.id).chunk_ids = D.chunk_ids
            /\ th[t].pc \in {"cc_get", "cc_create"} =>
                /\ chunkStore = th[t].pre.chunks
                /\ Entry(DocView, D.id).chunk_ids = D.chunk_ids

\* a second chunk was created under a document
C7_Witness ==
    \E t \in Threads :
        /\ Finished(t, "create_chunk_in_document")
        /\ th[t].status = 200
        /\ Len(Entry(DocView, th[t].document_id).chunk_ids) = 2

\* C8: create_document(L, ...) ends with NotFound and the Document Store as
\* it was when L is not in the Library Store; when L is stored and no other
\* operation overlaps it succeeds, the new document is stored with library
\* reference L and L's document list is its previous list with the new
\* identifier appended.
C8_CreateDocument ==
    \A t \in Threads :
        Finished(t, "create_document_in_library") =>
        IF th[t].library_id \notin SeqIds(th[t].pre.libs)
        THEN th[t].status = 404 /\ DocView = th[t].pre.docs
        ELSE LET L == Entry(th[t].pre.libs, th[t].library_id)
                 d == [id |-> th[t].document_id, title |-> th[t].title,
                       content |-> OptionalStr(th[t].content),
                       metadata |-> DefaultDict(th[t].metadata),
                       library_id |-> L.id, chunk_ids |-> <<>>]
             IN  /\ th[t].status = 200
                 /\ d.id \notin SeqIds(th[t].pre.docs)
                 /\ DocView = Append(th[t].pre.docs, d)
                 /\ Entry(LibView, L.id).document_ids
                      = Append(L.document_ids, d.id)

\* a second document was created in a library
C8_Witness ==
    \E t \in Threads :
        /\ Finished(t, "create_document_in_library")
        /\ th[t].status = 200
        /\ Len(Entry(LibView, th[t].library_id).document_ids) = 2

\* a create_document request named a library that is not stored
C8_WitnessNotFound ==
    \E t \in Threads :
        /\ Finished(t, "create_document_in_library")
        /\ th[t].status = 404
        /\ th[t].pre.docs # <<>>

\* the stores as they are after chunk c is deleted from the stores of pre
WithoutChunk(pre, c) ==
    [libs |-> pre.libs,
     docs |-> [i \in 1..Len(pre.docs) |->
                 IF \E j \in 1..Len(pre.chunks) :
                        /\ pre.chunks[j].id = c
                        /\ pre.chunks[j].document_id = pre.docs[i].id
                 THEN [pre.docs[i] EXCEPT !.chunk_ids =
                          SelectSeq(@, LAMBDA x : x # c)]
                 ELSE pre.docs[i]],
     chunks |-> SelectSeq(pre.chunks, LAMBDA x : x.id # c)]

\* C9: delete_chunk(c) on a stored chunk succeeds, removes c from the Chunk
\* Store and c's identifier from the chunk list of its parent document (when
\* the chunk names one), and changes nothing else in the three stores; a
\* chunk with no parent is just deleted.  The library-scoped delete does the
\* same whenever it succeeds.
C9_DeleteChunkFrame ==
    \A t \in Threads :
        /\ (Finished(t, "delete_chunk")
              /\ th[t].chunk_id \in SeqIds(th[t].pre.chunks)) =>
               /\ th[t].status = 200
               /\ Snapshot = WithoutChunk(th[t].pre, th[t].chunk_id)
        /\ (Finished(t, "delete_chunk_in_library") /\ th[t].status = 200) =>
               /\ th[t].chunk_id \in SeqIds(th[t].pre.chunks)
               /\ Snapshot = WithoutChunk(th[t].pre, th[t].chunk_id)

\* the first of the two chunks of a document was deleted
C9_Witness ==
    \E t \in Threads :
        /\ Finished(t, "delete_chunk")
        /\ th[t].status = 200
        /\ \E i \in 1..Len(th[t].pre.docs) :
               /\ Len(th[t].pre.docs[i].chunk_ids) = 2
               /\ th[t].pre.docs[i].chunk_ids[1] = th[t].chunk_id

\* C10: a search returns at most max(0, top_k) results, whatever the sign of
\* top_k; top_k <= 0 gives an empty result list.
C10_AtMostTopK ==
    \A t \in Threads :
        (Finished(t, "search_library") /\ th[t].status = 200) =>
            Len(th[t].results) <= (IF th[t].top_k > 0 THEN th[t].top_k ELSE 0)

\* a search that answered with a result list
Searched(t) == Finished(t, "search_library") /\ th[t].status = 200

\* a >= b on floats: False when either is NaN
GreaterEq(a, b) == a # NaN /\ b # NaN /\ ~Less(a, b)

\* the documents of library L in a snapshot of the stores
DocsOf(pre, L) ==
    {pre.docs[i].id : i \in {j \in 1..Len(pre.docs) : pre.docs[j].library_id = L}}

\* the chunks of library L in a snapshot: those naming a document of L
LibraryChunks(pre, L) ==
    SelectSeq(pre.chunks, LAMBDA c : c.document_id \in DocsOf(pre, L))

\* the chunks of a result list
ResultChunks(results) == {results[i].chunk : i \in 1..Len(results)}

\* C11: in every result list a search returns, each result's similarity
\* score is greater than or equal to the score of the result after it.
C11_ScoresNonIncreasing ==
    \A t \in Threads :
        Searched(t) =>
            \A i \in 1..(Len(th[t].results) - 1) :
                GreaterEq(th[t].results[i].score, th[t].results[i + 1].score)

\* C12: every chunk a search of library L returns names a parent document
\* that is stored with library reference L; chunks of other libraries and
\* chunks without a parent document are never returned.
C12_OnlyChunksOfLibrary ==
    \A t \in Threads :
        Searched(t) =>
            \A i \in 1..Len(th[t].results) :
                LET c == th[t].results[i].chunk
                IN  /\ c.document_id # NoId
                    /\ \E j \in 1..Len(DocView) :
                           /\ DocView[j].id = c.document_id
                           /\ DocView[j].library_id = th[t].library_id

\* a search returned a chunk while a chunk of the same dimension is stored
\* under another library's document or without a parent document
C12_Witness ==
    \E t \in Threads :
        /\ Searched(t)
        /\ Len(th[t].results) = 1
        /\ \E j \in 1..Len(chunkStore) :
               /\ chunkStore[j].id # th[t].results[1].chunk.id
               /\ Dimension(chunkStore[j].vector) = Dimension(th[t].vector)
               /\ chunkStore[j] \notin Range(LibraryChunks(th[t].pre,
                                                           th[t].library_id))

\* C13: a search of a library that is not stored ends with NotFound, also
\* when the query vector is empty; a search of a stored library with an empty
\* query vector ends with InvalidInput; neither changes a store.
C13_SearchErrors ==
    \A t \in Threads :
        Finished(t, "search_library") =>
            /\ th[t].library_id \notin SeqIds(th[t].pre.libs) =>
                   th[t].status = 404
            /\ (th[t].library_id \in SeqIds(th[t].pre.libs)
                   /\ th[t].vector = <<>>) => th[t].status = 422
            /\ th[t].status \in {404, 422} => Snapshot = th[t].pre

\* a search with an empty query vector named a library that is not stored,
\* while other libraries are
C13_Witness ==
    \E t \in Threads :
        /\ Finished(t, "search_library")
        /\ th[t].library_id \notin SeqIds(th[t].pre.libs)
        /\ th[t].vector = <<>>
        /\ th[t].status = 404
        /\ th[t].pre.libs # <<>>

\* a search of a stored library with an empty query vector was refused
C13_WitnessInvalid ==
    \E t \in Threads :
        /\ Finished(t, "search_library")
        /\ th[t].status = 422
        /\ th[t].pre.chunks # <<>>

\* C14: a search of a stored library with a query vector that is not empty
\* succeeds whatever the dimensions of the library's chunks; no returned
\* chunk has a dimension other than the query's; and when top_k is at least
\* the number of chunks of the library with the query's dimension, every one
\* of them is returned.
C14_MismatchSkipped ==
    \A t \in Threads :
        (Finished(t, "search_library")
            /\ th[t].library_id \in SeqIds(th[t].pre.libs)
            /\ th[t].vector # <<>>) =>
        LET same == SelectSeq(LibraryChunks(th[t].pre, th[t].library_id),
                       LAMBDA c : Dimension(c.vector) = Dimension(th[t].vector))
        IN  /\ th[t].status = 200
            /\ \A c \in ResultChunks(th[t].results) :
                   Dimension(c.vector) = Dimension(th[t].vector)
            /\ th[t].top_k >= Len(same) =>
                   ResultChunks(th[t].results) = Range(same)

\* a library with a chunk of dimension 2 and a chunk of dimension 1 was
\* searched with a query of dimension 2, and the first one came back
C14_Witness ==
    \E t \in Threads :
        /\ Searched(t)
        /\ Dimension(th[t].vector) = 2
        /\ Len(LibraryChunks(th[t].pre, th[t].library_id)) = 2
        /\ Len(th[t].results) = 1
        /\ \E c \in Range(LibraryChunks(th[t].pre, th[t].library_id)) :
               Dimension(c.vector) = 1

C17_ZeroQuery ==
    \A t \in Threads :
        (Finished(t, "search_library")
            /\ th[t].library_id \in SeqIds(th[t].pre.libs)
            /\ th[t].vector # <<>>
            /\ Norm(th[t].vector) = 0) =>
        LET cs == LibraryChunks(th[t].pre, th[t].library_id)
            same == SelectSeq(cs, LAMBDA c :
                        Dimension(c.vector) = Dimension(th[t].vector))
        IN  /\ th[t].status = 200
            /\ \A i \in 1..Len(th[t].results) : th[t].results[i].score = 0
            /\ th[t].top_k >= Len(same) =>
                   ResultChunks(th[t].results) = Range(same)
            /\ (Len(cs) = 1 /\ cs[1].vector = <<3, 4>> /\ th[t].top_k = 5) =>
                   /\ th[t].results = <<[chunk |-> cs[1], score |-> 0]>>
                   /\ th[t].total = 1

\* the library of one document with the one chunk [3,4] was searched with
\* [0,0] and top_k 5
C17_Witness ==
    \E t \in Threads :
        /\ Searched(t)
        /\ th[t].vector = <<0, 0>>
        /\ th[t].top_k = 5
        /\ Cardinality(DocsOf(th[t].pre, th[t].library_id)) = 1
        /\ Len(LibraryChunks(th[t].pre, th[t].library_id)) = 1
        /\ LibraryChunks(th[t].pre, th[t].library_id)[1].vector = <<3, 4>>
        /\ Len(th[t].results) = 1

\* C15: the total a search returns is the number of chunks it gathered and
\* scored to produce its ranking, also when chunks of the library are
\* created or deleted while the search runs.
C15_TotalIsCandidates ==
    \A t \in Threads :
        Searched(t) => th[t].total = Len(th[t].chunks)

\* thread t is inside the with self._lock block of a repository method
InsideLock(t) ==
    th[t].pc \in {"r_assign", "r_get", "r_iter", "r_test", "r_del", "r_unlock"}

\* the values of repository s in a snapshot of the stores
ViewOf(pre, s) ==
    CASE s = "library" -> pre.libs
      [] s = "document" -> pre.docs
      [] s = "chunk" -> pre.chunks

\* a mapping with the entry for e.id set to e: an old key keeps its place
Put(view, e) ==
    IF e.id \in SeqIds(view)
    THEN [i \in 1..Len(view) |-> IF view[i].id = e.id THEN e ELSE view[i]]
    ELSE Append(view, e)

\* a mapping without the entry for id
Drop(view, id) == SelectSeq(view, LAMBDA x : x.id # id)

\* thread t has run the body of repository method m and still holds the lock
Ran(t, m) == th[t].pc = "r_unlock" /\ th[t].op = m

\* C18: create(entity), in each of the three repositories, raises Conflict
\* when an entity with that identifier is stored already, and leaves the
\* repository's mapping as it was.
C18_CreateConflict ==
    \A t \in Threads :
        (Ran(t, "create")
            /\ th[t].key \in SeqIds(ViewOf(th[t].pre, th[t].store))) =>
        /\ th[t].raised = "Conflict"
        /\ StoreView(th[t].store) = ViewOf(th[t].pre, th[t].store)

\* C19: update(entity), in each of the three repositories, raises NotFound
\* when no entity with that identifier is stored, and leaves the repository's
\* mapping as it was.
C19_UpdateNotFound ==
    \A t \in Threads :
        (Ran(t, "update")
            /\ th[t].key \notin SeqIds(ViewOf(th[t].pre, th[t].store))) =>
        /\ th[t].raised = "NotFound"
        /\ StoreView(th[t].store) = ViewOf(th[t].pre, th[t].store)

\* C20: no two threads are inside methods of the same repository at once,
\* and every create, get_by_id, list, update and delete acts as one atomic
\* step on the mapping as it was when the method took the lock: when the
\* method is about to release the lock, what it returns and what the mapping
\* holds are what the operation gives when applied in one step to that
\* mapping.  The concurrent calls on a repository therefore have the outcome
\* of the same calls made one after another in the order they took the lock.
C20_Linearizable ==
    /\ \A t \in Threads : \A u \in Threads :
           (t # u /\ InsideLock(t) /\ InsideLock(u)) =>
               th[t].store # th[u].store
    /\ \A t \in Threads :
           th[t].pc = "r_unlock" =>
           LET s == th[t].store
               before == ViewOf(th[t].pre, s)
           IN  /\ th[t].raised = "none"
               /\ th[t].op \in {"create", "update"} =>
                      /\ StoreView(s) = Put(before, th[t].entity)
                      /\ th[t].ret = <<th[t].entity>>
               /\ th[t].op = "get_by_id" =>
                      /\ StoreView(s) = before
                      /\ th[t].ret
                           = SelectSeq(before, LAMBDA x : x.id = th[t].key)
               /\ th[t].op = "list" =>
                      /\ StoreView(s) = before
                      /\ th[t].ret
                           = SelectSeq(before,
                                       LAMBDA x : Listed(s, x, th[t].key))
               /\ th[t].op = "list_by_library_id" =>
                      /\ StoreView(s) = before
                      /\ th[t].ret
                           = SelectSeq(before, LAMBDA x : ListedInLibrary(t, x))
               /\ th[t].op = "delete" =>
                      /\ StoreView(s) = Drop(before, th[t].key)
                      /\ th[t].flag = (th[t].key \in SeqIds(before))

\* a thread waits for the lock of a repository to delete an entity while
\* another thread, inside delete of the same entity, has found it and not
\* yet removed it
C20_Witness ==
    \E t \in Threads : \E u \in Threads :
        /\ t # u
        /\ th[t].pc = "r_del"
        /\ th[u].pc = "r_lock"
        /\ th[u].op = "delete"
        /\ th[u].store = th[t].store
        /\ th[u].key = th[t].key

\* a delete found nothing to delete after it waited for a delete of the same
\* entity
C20_WitnessSecond ==
    \E t \in Threads : \E u \in Threads :
        /\ t # u
        /\ Ran(t, "delete")
        /\ ~th[t].flag
        /\ th[u].pc = "done"
        /\ th[u].op = "delete"
        /\ th[u].flag
        /\ th[u].store = th[t].store
        /\ th[u].key = th[t].key

\* the thread has changed an object it got from a repository and has not
\* yet called the repository's update with it
Unsaved(u, pc) == th[u].pc = pc

\* C21: what a thread changes in an entity it read from a store (a chunk
\* identifier appended to a document's list, a document identifier appended
\* to a library's list, a new name) is not seen by a reader of the store
\* before the thread calls the store's update: a document or library another
\* thread got while the change was made and update not yet called does not
\* show the change.
C21_VisibleOnlyThroughUpdate ==
    \A t \in Threads : \A u \in Threads :
        /\ (/\ Finished(t, "get_document_in_library")
            /\ th[t].status = 200
            /\ Unsaved(u, "cc_update")
            /\ th[u].document = th[t].document) =>
               ~Contains(th[t].ret[1].chunk_ids, th[u].chunk.id)
        /\ (/\ Finished(t, "get_library")
            /\ th[t].status = 200
            /\ Unsaved(u, "cd_update")
            /\ th[u].library = th[t].library) =>
               ~Contains(th[t].ret[1].document_ids, th[u].document)
        /\ (/\ Finished(t, "get_library")
            /\ th[t].status = 200
            /\ Unsaved(u, "ul_update")
            /\ th[u].library = th[t].library
            /\ Entry(th[u].pre.libs, th[u].library).name # th[u].title) =>
               th[t].ret[1].name # th[u].title

\* the repositories whose lock thread t holds
Held(t) == {s \in Stores : lock[s] = t}

\* C22: no thread ever holds the locks of two repositories; a
\* list_by_library_id of the Chunk Store that waits for, or holds, the Chunk
\* Store's lock does not hold the Document Store's lock any more.
C22_OneLockAtATime ==
    \A t \in Threads :
        /\ Cardinality(Held(t)) <= 1
        /\ (th[t].op = "list_by_library_id" /\ th[t].store = "chunk"
               /\ th[t].pc \in {"r_lock", "r_iter", "r_unlock"}) =>
                  lock["document"] # t

\* a list_by_library_id has listed a document of the library and is inside
\* the Chunk Store's lock, at a chunk of that document
C22_Witness ==
    \E t \in Threads :
        /\ th[t].op = "list_by_library_id"
        /\ th[t].store = "chunk"
        /\ th[t].pc = "r_iter"
        /\ Held(t) = {"chunk"}
        /\ th[t].documents # <<>>
        /\ th[t].ret # <<>>

\* a field after an update: the value the request gives, or the value it had
\* when the request leaves the field out
Patched(given, old, new) ==
    IF given = Omitted THEN new = old ELSE given # Null => new = given

\* the same for a field that holds a dict
PatchedDict(given, old, new) ==
    IF given = OmittedDict THEN new = old ELSE given # NullDict => new = given

\* the entries of a view other than the one with the given identifier
Others(view, id) == SelectSeq(view, LAMBDA x : x.id # id)

\* C23: a successful update_library leaves the library with, for each of
\* name, description and metadata, the value the request gives or, when the
\* request leaves the field out, the value it had; its identifier and its
\* document_ids are as before, and no other library, no document and no chunk
\* is changed.  A successful update_document_in_library does the same for
\* title, content and metadata, and keeps the document's identifier,
\* library_id and chunk_ids.
C23_UpdatePatches ==
    \A t \in Threads :
        /\ (Finished(t, "update_library") /\ th[t].status = 200) =>
              LET old == Entry(th[t].pre.libs, th[t].library_id)
                  new == Entry(LibView, th[t].library_id)
              IN  /\ Patched(th[t].title, old.name, new.name)
                  /\ Patched(th[t].description, old.description,
                             new.description)
                  /\ PatchedDict(th[t].metadata, old.metadata, new.metadata)
                  /\ new.document_ids = old.document_ids
                  /\ SeqIds(LibView) = SeqIds(th[t].pre.libs)
                  /\ Others(LibView, old.id) = Others(th[t].pre.libs, old.id)
                  /\ DocView = th[t].pre.docs
                  /\ chunkStore = th[t].pre.chunks
        /\ (Finished(t, "update_document_in_library")
               /\ th[t].status = 200) =>
              LET old == Entry(th[t].pre.docs, th[t].document_id)
                  new == Entry(DocView, th[t].document_id)
              IN  /\ Patched(th[t].title, old.title, new.title)
                  /\ Patched(th[t].content, old.content, new.content)
                  /\ PatchedDict(th[t].metadata, old.metadata, new.metadata)
                  /\ new.library_id = old.library_id
                  /\ new.chunk_ids = old.chunk_ids
                  /\ SeqIds(DocView) = SeqIds(th[t].pre.docs)
                  /\ Others(DocView, old.id) = Others(th[t].pre.docs, old.id)
                  /\ LibView = th[t].pre.libs
                  /\ chunkStore = th[t].pre.chunks

\* an update of a library that holds a document gave it a new description
\* and left its name and its metadata out
C23_Witness ==
    \E t \in Threads :
        /\ Finished(t, "update_library")
        /\ th[t].status = 200
        /\ th[t].title = Omitted
        /\ th[t].description = "Moved"
        /\ th[t].metadata = OmittedDict
        /\ Entry(LibView, th[t].library_id).name = "Docs"
        /\ Entry(LibView, th[t].library_id).metadata = {"a"}
        /\ Entry(LibView, th[t].library_id).document_ids # <<>>

\* an update of a document that holds a chunk gave it a new title and left
\* its content and its metadata out
C23_WitnessDocument ==
    \E t \in Threads :
        /\ Finished(t, "update_document_in_library")
        /\ th[t].status = 200
        /\ th[t].title = "Retitled"
        /\ th[t].content = Omitted
        /\ th[t].metadata = OmittedDict
        /\ Entry(DocView, th[t].document_id).content = "Text"
        /\ Entry(DocView, th[t].document_id).metadata = {"a"}
        /\ Entry(DocView, th[t].document_id).chunk_ids # <<>>

\* C24: after a successful update_library or update_document_in_library
\* whose request gives metadata as the empty dict or as null, the stored
\* metadata has none of the keys it had before.
C24_ExplicitMetadataReplaces ==
    \A t \in Threads :
        /\ (Finished(t, "update_library") /\ th[t].status = 200
               /\ th[t].metadata \in {NullDict, {}}) =>
              Entry(LibView, th[t].library_id).metadata
                  \cap Entry(th[t].pre.libs, th[t].library_id).metadata = {}
        /\ (Finished(t, "update_document_in_library") /\ th[t].status = 200
               /\ th[t].metadata \in {NullDict, {}}) =>
              Entry(DocView, th[t].document_id).metadata
                  \cap Entry(th[t].pre.docs, th[t].document_id).metadata = {}

\* the identifiers of a view, in its order
IdsOf(view) == [i \in 1..Len(view) |-> view[i].id]

\* C25: a successful update_chunk_in_library leaves the chunk with the
\* vector and the metadata of the request (the empty dict when the request
\* has none), with its identifier and its document_id as before, and reports
\* the length of the new vector as its dimension; the Chunk Store keeps its
\* order, every other chunk, every document (its chunk_ids included) and
\* every library is as before.
C25_UpdateChunkFrame ==
    \A t \in Threads :
        (Finished(t, "update_chunk_in_library") /\ th[t].status = 200) =>
            LET old == Entry(th[t].pre.chunks, th[t].chunk_id)
                new == Entry(chunkStore, th[t].chunk_id)
            IN  /\ new.vector = th[t].vector
                /\ new.metadata = DefaultDict(th[t].metadata)
                /\ new.document_id = old.document_id
                /\ th[t].chunk = new
                /\ th[t].dimension = Len(th[t].vector)
                /\ IdsOf(chunkStore) = IdsOf(th[t].pre.chunks)
                /\ Others(chunkStore, old.id) = Others(th[t].pre.chunks, old.id)
                /\ DocView = th[t].pre.docs
                /\ LibView = th[t].pre.libs

\* the first of two chunks got a vector of another length and no metadata,
\* by a request that names a document_id other than the chunk's
C25_Witness ==
    \E t \in Threads :
        /\ Finished(t, "update_chunk_in_library")
        /\ th[t].status = 200
        /\ Len(chunkStore) = 2
        /\ chunkStore[1].id = th[t].chunk_id
        /\ Entry(th[t].pre.chunks, th[t].chunk_id).vector = <<3, 4>>
        /\ Entry(th[t].pre.chunks, th[t].chunk_id).metadata = {"a"}
        /\ th[t].vector = <<1>>
        /\ th[t].metadata = OmittedDict
        /\ th[t].document_id \notin {NoId, chunkStore[1].document_id}
        /\ Contains(docStore, th[t].document_id)

\* in the stores s, document d is stored and belongs to the stored library X
DocumentIn(s, X, d) ==
    /\ X \in SeqIds(s.libs)
    /\ d \in SeqIds(s.docs)
    /\ Entry(s.docs, d).library_id = X

\* in the stores s, chunk c is stored and its document belongs to the stored
\* library X
ChunkIn(s, X, c) ==
    /\ c \in SeqIds(s.chunks)
    /\ DocumentIn(s, X, Entry(s.chunks, c).document_id)

DocumentScoped == {"get_document_in_library", "update_document_in_library",
                   "delete_document_in_library"}
ChunkScoped == {"get_chunk_in_library", "update_chunk_in_library",
                "delete_chunk_in_library"}

\* the stores are as they were when the operation of t began
Untouched(t) ==
    /\ LibView = th[t].pre.libs
    /\ DocView = th[t].pre.docs
    /\ chunkStore = th[t].pre.chunks

\* C26: a get, update or delete of a document or of a chunk within library
\* X succeeds only when X is stored, the entity is stored, and the document
\* (for a chunk: its stored parent document) has library_id X; in every
\* other case it ends with NotFound and the three stores are as before.
C26_ScopedNeedsAncestry ==
    \A t \in Threads :
        /\ \A op \in DocumentScoped :
               Finished(t, op) =>
                   IF DocumentIn(th[t].pre, th[t].library_id, th[t].document_id)
                   THEN th[t].status = 200
                   ELSE th[t].status = 404 /\ Untouched(t)
        /\ \A op \in ChunkScoped :
               Finished(t, op) =>
                   IF ChunkIn(th[t].pre, th[t].library_id, th[t].chunk_id)
                   THEN th[t].status = 200
                   ELSE th[t].status = 404 /\ Untouched(t)

\* a chunk is not deleted through a stored library that is not the library
\* of its stored document
C26_Witness ==
    \E t \in Threads :
        /\ Finished(t, "delete_chunk_in_library")
        /\ th[t].status = 404
        /\ th[t].library_id \in SeqIds(th[t].pre.libs)
        /\ th[t].chunk_id \in SeqIds(th[t].pre.chunks)
        /\ Entry(th[t].pre.chunks, th[t].chunk_id).document_id
             \in SeqIds(th[t].pre.docs)
        /\ ~ChunkIn(th[t].pre, th[t].library_id, th[t].chunk_id)

\* a document is deleted through its own library
C26_WitnessFound ==
    \E t \in Threads :
        /\ Finished(t, "delete_document_in_library")
        /\ th[t].status = 200
        /\ Len(th[t].pre.libs) = 2
        /\ DocumentIn(th[t].pre, th[t].library_id, th[t].document_id)

\* the documents of library L in a view of the Document Store
InLibrary(docs, L) == SelectSeq(docs, LAMBDA d : d.library_id = L)

\* C27: where libraries start with no document and chunks are only added by
\* create_chunk_in_library, one request after another: the first addition to
\* a library creates its default document, every later one finds the same
\* document, so the library has exactly that one document, listed in its
\* document_ids; the new chunk has it as document_id and is in its
\* chunk_ids, and so has and is every chunk stored so far.
C27_OneDefaultDocument ==
    \A t \in Threads :
        (Finished(t, "create_chunk_in_library") /\ th[t].status = 200) =>
            LET L == th[t].library_id
                before == InLibrary(th[t].pre.docs, L)
                after == InLibrary(DocView, L)
            IN  /\ Len(after) = 1
                /\ after[1].title = DefaultTitle
                /\ after[1].metadata = DefaultMetadata
                /\ IF before = <<>>
                   THEN after[1].id \notin SeqIds(th[t].pre.docs)
                   ELSE IdsOf(before) = <<after[1].id>>
                /\ Entry(LibView, L).document_ids = <<after[1].id>>
                /\ Entry(chunkStore, th[t].chunk_id).document_id = after[1].id
                /\ \A i \in 1..Len(chunkStore) :
                       \E j \in 1..Len(DocView) :
                           /\ DocView[j].id = chunkStore[i].document_id
                           /\ Contains(DocView[j].chunk_ids, chunkStore[i].id)
                           /\ DocView[j].library_id = L
                                => DocView[j].id = after[1].id

\* the second chunk added to a library went into the document that the
\* first addition created
C27_Witness ==
    \E t \in Threads :
        /\ Finished(t, "create_chunk_in_library")
        /\ th[t].status = 200
        /\ InLibrary(th[t].pre.docs, th[t].library_id) # <<>>
        /\ Len(InLibrary(DocView, th[t].library_id)[1].chunk_ids) = 2
        /\ Len(libStore) = 2

\* C28: delete_library of an identifier that is not in the Library Store
\* ends with NotFound and the three stores as they were, and so does
\* get_library; a successful delete_library leaves the identifier out of
\* the Library Store, and identifiers are not handed out again, so a
\* get_library or a second delete_library of it ends with NotFound.
C28_DeleteAbsentLibrary ==
    \A t \in Threads :
        /\ \A op \in {"delete_library", "get_library"} :
               (Finished(t, op)
                    /\ th[t].library_id \notin SeqIds(th[t].pre.libs)) =>
                   th[t].status = 404 /\ Untouched(t)
        /\ (Finished(t, "delete_library") /\ th[t].status = 200) =>
               /\ th[t].library_id \in SeqIds(th[t].pre.libs)
               /\ th[t].library_id \notin SeqIds(LibView)
        /\ \A i \in 1..Len(LibView) : LibView[i].id < nextLib

\* a second delete_library of a library that was created and deleted, while
\* another library is stored
C28_Witness ==
    \E t \in Threads :
        /\ Finished(t, "delete_library")
        /\ th[t].status = 404
        /\ th[t].library_id < nextLib
        /\ th[t].library_id \notin SeqIds(LibView)
        /\ LibView # <<>>

\* a get_library of a library that was created and deleted
C28_WitnessGet ==
    \E t \in Threads :
        /\ Finished(t, "get_library")
        /\ th[t].status = 404
        /\ th[t].library_id < nextLib

\* no value is at two positions of the list
NoDuplicate(ids) ==
    \A i, j \in 1..Len(ids) : ids[i] = ids[j] => i = j

\* C29: no chunk_ids list of a document and no document_ids list of a
\* library holds an identifier twice, and add_chunk_id / add_document_id
\* with an identifier that is already in the list leaves the list, and so
\* the whole document or library, as it was.
C29_NoDuplicateMembers ==
    /\ \A i \in 1..Len(DocView) : NoDuplicate(DocView[i].chunk_ids)
    /\ \A i \in 1..Len(LibView) : NoDuplicate(LibView[i].document_ids)
    /\ \A i \in 1..MaxDocs : NoDuplicate(docObj[i].chunk_ids)
    /\ \A i \in 1..MaxLibs : NoDuplicate(libObj[i].document_ids)
    /\ \A t \in Threads :
           /\ (Finished(t, "add_chunk_id")
                 /\ Contains(Entry(th[t].pre.docs, th[t].document).chunk_ids,
                             th[t].chunk_id)) =>
                  DocView = th[t].pre.docs
           /\ (Finished(t, "add_document_id")
                 /\ Contains(Entry(th[t].pre.libs, th[t].library).document_ids,
                             th[t].document_id)) =>
                  LibView = th[t].pre.libs

\* add_chunk_id was called with the first of the two identifiers of a list
C29_Witness ==
    \E t \in Threads :
        /\ Finished(t, "add_chunk_id")
        /\ Len(Entry(th[t].pre.docs, th[t].document).chunk_ids) = 2
        /\ Entry(th[t].pre.docs, th[t].document).chunk_ids[1] = th[t].chunk_id

\* add_document_id was called with an identifier of the library's list
C29_WitnessLibrary ==
    \E t \in Threads :
        /\ Finished(t, "add_document_id")
        /\ Contains(Entry(th[t].pre.libs, th[t].library).document_ids,
                    th[t].document_id)

\* thread t is between chunk_repo.create and document.add_chunk_id of
\* create_chunk_in_document
BetweenStoreCalls(t) ==
    th[t].op = "create_chunk_in_document" /\ th[t].pc = "cc_add"

\* C30: between the two store calls of create_chunk_in_document the stores
\* disagree: the Chunk Store has the new chunk with document_id D, the
\* Document Store has D, and D's chunk_ids do not have the chunk; a reader
\* on another thread is served in that state.
C30_TransientInconsistency ==
    \A t \in Threads :
        BetweenStoreCalls(t) =>
            /\ Contains(chunkStore, th[t].chunk)
            /\ th[t].chunk.document_id = th[t].document_id
            /\ th[t].document_id \in SeqIds(DocView)
            /\ ~Contains(Entry(DocView, th[t].document_id).chunk_ids,
                         th[t].chunk.id)

\* a reader got document D, without the chunk in its chunk_ids, by a
\* request that began when the chunk was in the Chunk Store, while the
\* writer is still between its two store calls
C30_Witness ==
    \E r, w \in Threads :
        /\ BetweenStoreCalls(w)
        /\ Finished(r, "get_document_in_library")
        /\ th[r].status = 200
        /\ th[r].ret[1].id = th[w].document_id
        /\ th[w].chunk.id \in SeqIds(th[r].pre.chunks)
        /\ ~Contains(th[r].ret[1].chunk_ids, th[w].chunk.id)

\* a reader got the new chunk, with document_id D, while D's chunk_ids in
\* the Document Store do not have it
C30_WitnessChunk ==
    \E r, w \in Threads :
        /\ BetweenStoreCalls(w)
        /\ Finished(r, "get_chunk_in_library")
        /\ th[r].status = 200
        /\ th[r].ret[1] = th[w].chunk
        /\ ~Contains(Entry(DocView, th[r].ret[1].document_id).chunk_ids,
                     th[r].ret[1].id)

\* C31: a successful delete_document of D leaves in the Chunk Store exactly
\* the chunks whose document_id is not D, in their order: every chunk with
\* document_id D is deleted, whether D's chunk_ids named it or not.
C31_DeleteByParentReference ==
    \A t \in Threads :
        (Finished(t, "delete_document_in_library") /\ th[t].status = 200) =>
            chunkStore = SelectSeq(th[t].pre.chunks,
                             LAMBDA c : c.document_id # th[t].document_id)

\* the deleted document had a chunk in its chunk_ids and a chunk, made by the
\* legacy create_chunk, that named it without being in its chunk_ids
C31_Witness ==
    \E t \in Threads :
        /\ Finished(t, "delete_document_in_library")
        /\ th[t].status = 200
        /\ LET D == Entry(th[t].pre.docs, th[t].document_id)
           IN  /\ D.chunk_ids # <<>>
               /\ \E i \in 1..Len(th[t].pre.chunks) :
                      /\ th[t].pre.chunks[i].document_id = D.id
                      /\ ~Contains(D.chunk_ids, th[t].pre.chunks[i].id)

\* the documents of library L whose title starts with "Default Document", in
\* the order of the Document Store, which is the order of their creation
Marked(docs, L) ==
    SelectSeq(docs, LAMBDA d : d.library_id = L /\ StartsWithDefault(d.title))

\* C32: a successful create_chunk_in_library on L attaches the chunk to the
\* first document of L, in creation order, whose title starts with "Default
\* Document", whoever created it, and then creates no document; only when L
\* has no such document is a document titled "Default Document" created,
\* last in the store, and the chunk attached to it.
C32_FirstMatchByTitlePrefix ==
    \A t \in Threads :
        (Finished(t, "create_chunk_in_library") /\ th[t].status = 200) =>
            LET L == th[t].library_id
                hits == Marked(th[t].pre.docs, L)
                c == Entry(chunkStore, th[t].chunk_id)
            IN  /\ \A i, j \in 1..Len(th[t].pre.docs) :
                       i < j => th[t].pre.docs[i].id < th[t].pre.docs[j].id
                /\ IF hits # <<>>
                   THEN /\ IdsOf(DocView) = IdsOf(th[t].pre.docs)
                        /\ c.document_id = hits[1].id
                        /\ Entry(DocView, hits[1].id)
                             = [hits[1] EXCEPT !.chunk_ids = Append(@, c.id)]
                        /\ Others(DocView, hits[1].id)
                             = Others(th[t].pre.docs, hits[1].id)
                   ELSE /\ Len(DocView) = Len(th[t].pre.docs) + 1
                        /\ SubSeq(DocView, 1, Len(th[t].pre.docs))
                             = th[t].pre.docs
                        /\ DocView[Len(DocView)].title = DefaultTitle
                        /\ DocView[Len(DocView)].library_id = L
                        /\ DocView[Len(DocView)].chunk_ids = <<c.id>>
                        /\ c.document_id = DocView[Len(DocView)].id

\* the library had two documents with the title prefix, the first of them
\* created by a create_document request, and the chunk went to the first
C32_Witness ==
    \E t \in Threads :
        /\ Finished(t, "create_chunk_in_library")
        /\ th[t].status = 200
        /\ LET hits == Marked(th[t].pre.docs, th[t].library_id)
           IN  /\ Len(hits) = 2
               /\ hits[1].title # DefaultTitle
               /\ hits[1].metadata # DefaultMetadata
               /\ Contains(Entry(DocView, hits[1].id).chunk_ids,
                           th[t].chunk_id)

\* the library had documents, none with the title prefix, and a default
\* document was created
C32_WitnessCreated ==
    \E t \in Threads :
        /\ Finished(t, "create_chunk_in_library")
        /\ th[t].status = 200
        /\ InLibrary(th[t].pre.docs, th[t].library_id) # <<>>
        /\ Marked(th[t].pre.docs, th[t].library_id) = <<>>

\* in the stores s every chunk names a stored document and every document
\* names a stored library
ParentsStored(s) ==
    /\ \A i \in 1..Len(s.chunks) : s.chunks[i].document_id \in SeqIds(s.docs)
    /\ \A i \in 1..Len(s.docs) : s.docs[i].library_id \in SeqIds(s.libs)

C33_WitnessDocument ==
    \E t \in Threads :
        /\ th[t].op = "delete_document_in_library"
        /\ th[t].pc = "dd_update"
        /\ ParentsStored(th[t].pre)
        /\ Len(th[t].pre.chunks) = 2
        /\ Len(chunkStore) = 1

\* thread t is inside a repository method
InMethod(t) == th[t].pc \in {"r_lock", "r_assign", "r_get", "r_iter",
                             "r_test", "r_del", "r_unlock"}

\* C34: with threads scheduled fairly, every repository method that a thread
\* has entered returns: a thread waiting for a store's lock gets it, and no
\* state is reached in which threads inside methods can take no step.
C34_EveryCallReturns ==
    \A t \in Threads : InMethod(t) ~> (th[t].pc = "done")

\* a thread waits for the lock of a store that the other thread holds, while
\* that thread is inside list_by_library_id
C34_Witness ==
    \E t, u \in Threads :
        /\ t # u
        /\ th[t].pc = "r_lock"
        /\ lock[th[t].store] = u
        /\ th[u].op = "list_by_library_id"

\* the chunks of library L whose dimension is that of the query q
Candidates(pre, L, q) ==
    SelectSeq(LibraryChunks(pre, L),
              LAMBDA c : Dimension(c.vector) = Dimension(q))

\* C35: a search with top_k >= 0 returns min(top_k, m) results, m the number
\* of chunks of the library with the query's dimension, each such a chunk,
\* and no such chunk that is not among the results has a score greater than
\* the score of a result.
C35_TopKHighest ==
    \A t \in Threads :
        (Searched(t) /\ th[t].top_k >= 0) =>
            LET cands == Candidates(th[t].pre, th[t].library_id, th[t].vector)
                m == Len(cands)
                res == th[t].results
            IN  /\ Len(res) = IF th[t].top_k < m THEN th[t].top_k ELSE m
                /\ ResultChunks(res) \subseteq Range(cands)
                /\ Cardinality(ResultChunks(res)) = Len(res)
                /\ \A c \in Range(cands) \ ResultChunks(res) :
                       \A i \in 1..Len(res) :
                           ~Less(res[i].score,
                                 SimilarityTo(th[t].vector, c.vector))

\* C36: once a delete_document of D has answered with success, D is not in
\* the Document Store, whatever a create_chunk_in_document under D or an
\* update_document of D that was running at the time does afterwards.
C36_DeletedDocumentStaysDeleted ==
    \A t \in Threads :
        (Finished(t, "delete_document_in_library") /\ th[t].status = 200) =>
            th[t].document_id \notin SeqIds(DocView)

\* C37: once a delete_library of L has answered with success, L is not in
\* the Library Store, whatever a create_document, delete_document,
\* add-chunk-to-library or update_library on L that was running at the time
\* does afterwards.
C37_DeletedLibraryStaysDeleted ==
    \A t \in Threads :
        (Finished(t, "delete_library") /\ th[t].status = 200) =>
            th[t].library_id \notin SeqIds(LibView)

\* threads t and u have both answered a request op with success
BothFinished(t, u, op) ==
    /\ t # u
    /\ Finished(t, op) /\ th[t].status = 200
    /\ Finished(u, op) /\ th[u].status = 200

\* the chunk_ids of document d as it was when the request of thread t began
ChunkIdsBefore(t, d) ==
    IF d \in SeqIds(th[t].pre.docs) THEN Entry(th[t].pre.docs, d).chunk_ids
    ELSE <<>>

\* the document_ids of library L as it was when the request of thread t began
DocumentIdsBefore(t, L) ==
    IF L \in SeqIds(th[t].pre.libs) THEN Entry(th[t].pre.libs, L).document_ids
    ELSE <<>>

\* C38: when two create_chunk_in_document requests under one document have
\* both answered with success, the stored document lists both new chunks in
\* its chunk_ids; when two create_document_in_library requests in one library
\* have both answered with success, the stored library lists both new
\* documents in its document_ids.
C38_NoLostMembership ==
    \A t, u \in Threads :
        /\ (BothFinished(t, u, "create_chunk_in_document")
              /\ th[t].document_id = th[u].document_id) =>
               /\ th[t].document_id \in SeqIds(DocView)
               /\ LET ids == Entry(DocView, th[t].document_id).chunk_ids
                  IN  /\ th[t].chunk_id # th[u].chunk_id
                      /\ Contains(ids, th[t].chunk_id)
                      /\ Contains(ids, th[u].chunk_id)
        /\ (BothFinished(t, u, "create_document_in_library")
              /\ th[t].library_id = th[u].library_id) =>
               /\ th[t].library_id \in SeqIds(LibView)
               /\ LET ids == Entry(LibView, th[t].library_id).document_ids
                  IN  /\ th[t].document_id # th[u].document_id
                      /\ Contains(ids, th[t].document_id)
                      /\ Contains(ids, th[u].document_id)

\* C38, reached: two create_chunk_in_document requests under one document
\* have both answered with success, and each began before the other's chunk
\* was in the document's list.
C38_Witness ==
    /\ BothFinished(1, 2, "create_chunk_in_document")
    /\ th[1].document_id = th[2].document_id
    /\ ~Contains(ChunkIdsBefore(1, th[1].document_id), th[2].chunk_id)
    /\ ~Contains(ChunkIdsBefore(2, th[2].document_id), th[1].chunk_id)

\* C38, reached: two create_document_in_library requests in one library have
\* both answered with success, and each began before the other's document
\* was in the library's list.
C38_WitnessDocument ==
    /\ BothFinished(1, 2, "create_document_in_library")
    /\ th[1].library_id = th[2].library_id
    /\ ~Contains(DocumentIdsBefore(1, th[1].library_id), th[2].document_id)
    /\ ~Contains(DocumentIdsBefore(2, th[2].library_id), th[1].document_id)

\* no thread but t is inside a request
OthersCompleted(t) ==
    \A u \in Threads \ {t} : th[u].pc \in {"idle", "done"}

\* document d was created with library L as its library_id
BelongedTo(d, L) == d \in 1..(nextDoc - 1) /\ docObj[d].library_id = L

\* C39: once a delete_library of L has answered with success and the
\* create_document_in_library, create_chunk_in_document and
\* create_chunk_in_library requests that ran beside it have answered too, the
\* Document Store has no document with library_id L and the Chunk Store has
\* no chunk whose document was a document of L.
C39_CascadeSurvivesCreation ==
    \A t \in Threads :
        (Finished(t, "delete_library") /\ th[t].status = 200
           /\ OthersCompleted(t)) =>
            /\ \A i \in 1..Len(DocView) :
                   DocView[i].library_id # th[t].library_id
            /\ \A i \in 1..Len(chunkStore) :
                   ~BelongedTo(chunkStore[i].document_id, th[t].library_id)

\* C40: when two create_chunk_in_library requests on one library, which had
\* no default document when either began, have both answered with success,
\* the library has at most one document titled "Default Document", and both
\* new chunks have it as document_id and are in its chunk_ids.
C40_OneDefaultForConcurrentAdds ==
    \A t, u \in Threads :
        (BothFinished(t, u, "create_chunk_in_library")
           /\ th[t].library_id = th[u].library_id
           /\ Marked(th[t].pre.docs, th[t].library_id) = <<>>
           /\ Marked(th[u].pre.docs, th[u].library_id) = <<>>) =>
            LET defaults == Marked(DocView, th[t].library_id)
            IN  /\ Len(defaults) <= 1
                /\ \A r \in {t, u} :
                       /\ th[r].chunk_id \in SeqIds(chunkStore)
                       /\ \E i \in 1..Len(defaults) :
                              /\ Entry(chunkStore, th[r].chunk_id).document_id
                                    = defaults[i].id
                              /\ Contains(defaults[i].chunk_ids, th[r].chunk_id)

=============================================================================
